---- MODULE Spec2Model ----
(***************************************************************************)
(* Model of the Context Rule Store of MCP-Context-Provider                 *)
(* (src/context_provider_server.py, class ContextProvider).                *)
(*                                                                         *)
(* Python strings whose characters the code inspects (context names, file  *)
(* names, tool_category, description, version) are sequences of one-       *)
(* character strings.  Python values are tagged records: S(s) a str, N(n)  *)
(* an int, B(b) a bool, L(l) a list, D(d) a dict, NoneV None.  A dict is a *)
(* function whose DOMAIN is its key set.                                   *)
(*                                                                         *)
(* One step of the model is one whole call of a store operation.  What    *)
(* the environment does during the call is an input of the step: the       *)
(* clock reading, whether the backup's mkdir or copy fails, whether the    *)
(* document file's open or write fails, whether asyncio.create_task        *)
(* finds a running event loop, and the state of the memory service.  The   *)
(* clock can advance inside a call: each datetime.now() of the call gets   *)
(* its own reading.                                                        *)
(***************************************************************************)
EXTENDS Integers, Sequences, FiniteSets, TLC

VARIABLES
    files,       \* config_dir: file name -> file content
    backupDir,   \* whether config_dir/backups exists
    backups,     \* config_dir/backups: file name -> file content
    contexts,    \* self.contexts: context name -> document
    now,         \* the wall clock, in ticks
    result,      \* what the last call returned (or that it raised)
    stderr,      \* the warnings the last call printed
    session_status   \* self.session_status

vars == <<files, backupDir, backups, contexts, now, result, stderr, session_status>>

----------------------------------------------------------------------------
(* Bounds *)

MaxClock == 3          \* the clock stops the run at this tick
TicksPerSecond == 2    \* clock ticks that share one %Y%m%d_%H%M%S stamp
MaxRules == 3          \* the longest auto_corrections section of the inputs
MaxCalls == 3          \* the startup actions of one run whose outcome is drawn

----------------------------------------------------------------------------
(* Python values *)

S(s) == [t |-> "str", s |-> s]
N(n) == [t |-> "int", n |-> n]
B(b) == [t |-> "bool", b |-> b]
L(l) == [t |-> "list", l |-> l]
D(d) == [t |-> "dict", d |-> d]
NoneV == [t |-> "none"]

EmptyDict == [k \in {} |-> NoneV]

\* d[k] = v on a dict
Put(d, k, v) == [j \in DOMAIN d \cup {k} |-> IF j = k THEN v ELSE d[j]]

\* d.get(k, default)
Get(d, k, default) == IF k \in DOMAIN d THEN d[k] ELSE default

\* d.update(e)
DictUpdate(d, e) == [j \in DOMAIN d \cup DOMAIN e |-> IF j \in DOMAIN e THEN e[j] ELSE d[j]]

\* a dict whose insertion order is read: keys lists its keys in that order
OD(keys, d) == [t |-> "dict", d |-> d, keys |-> keys]

Reverse(s) == [i \in DOMAIN s |-> s[Len(s) + 1 - i]]

\* a store that reads the rules last to first
Items_reversed(v) ==
    IF "keys" \in DOMAIN v THEN Reverse(v.keys)
    ELSE CHOOSE seq \in [1..Cardinality(DOMAIN v.d) -> DOMAIN v.d] :
            {seq[i] : i \in DOMAIN seq} = DOMAIN v.d

\* the keys of dict.items() in their order; a dict built by D keeps no order
\* and is read in a fixed arbitrary one
Items(v) ==
    IF "keys" \in DOMAIN v THEN v.keys
    ELSE CHOOSE seq \in [1..Cardinality(DOMAIN v.d) -> DOMAIN v.d] :
            {seq[i] : i \in DOMAIN seq} = DOMAIN v.d

isinstance_str(v) == v.t = "str"
isinstance_dict(v) == v.t = "dict"

----------------------------------------------------------------------------
(* Strings *)

LowerCase == <<"a","b","c","d","e","f","g","h","i","j","k","l","m",
               "n","o","p","q","r","s","t","u","v","w","x","y","z">>
UpperCase == <<"A","B","C","D","E","F","G","H","I","J","K","L","M",
               "N","O","P","Q","R","S","T","U","V","W","X","Y","Z">>
Digits == <<"0","1","2","3","4","5","6","7","8","9">>

Range(seq) == {seq[i] : i \in DOMAIN seq}

RECURSIVE Orders(_)
\* the orders in which the elements of a set can be listed: the orders
\* self.contexts.items() can have, and the orders a directory can yield its
\* entries in
Orders(names) ==
    IF names = {} THEN {<<>>}
    ELSE UNION {{<<n>> \o o : o \in Orders(names \ {n})} : n \in names}

\* the character class [a-zA-Z0-9_-]
NameChars == Range(LowerCase) \cup Range(UpperCase) \cup Range(Digits) \cup {"_", "-"}

\* str.lower()
LowerChar(c) ==
    IF c \in Range(UpperCase)
    THEN LowerCase[CHOOSE i \in DOMAIN UpperCase : UpperCase[i] = c]
    ELSE c
Lower(s) == [i \in DOMAIN s |-> LowerChar(s[i])]

\* str(n) for a natural number
RECURSIVE Dec(_)
Dec(n) == IF n < 10 THEN <<Digits[n + 1]>>
          ELSE Dec(n \div 10) \o <<Digits[(n % 10) + 1]>>

\* str.endswith(suffix)
EndsWith(s, suffix) ==
    /\ Len(s) >= Len(suffix)
    /\ SubSeq(s, Len(s) - Len(suffix) + 1, Len(s)) = suffix

\* str.replace(old, ""): every non-overlapping occurrence, left to right
RECURSIVE Remove(_, _)
Remove(s, old) ==
    IF Len(s) < Len(old) THEN s
    ELSE IF SubSeq(s, 1, Len(old)) = old
         THEN Remove(SubSeq(s, Len(old) + 1, Len(s)), old)
         ELSE <<s[1]>> \o Remove(Tail(s), old)

\* Python's "$" also matches just before one trailing newline
BeforeDollar(s) ==
    IF Len(s) > 0 /\ s[Len(s)] = "\n" THEN SubSeq(s, 1, Len(s) - 1) ELSE s

ContextSuffix == <<"_","c","o","n","t","e","x","t",".","j","s","o","n">>
JsonSuffix == <<".","j","s","o","n">>
ContextInfix == <<"_","c","o","n","t","e","x","t","_">>

----------------------------------------------------------------------------
(* Files *)

\* A dict key that is no str (dict.update can make an int, a bool or None a
\* key) stands in the model's dicts under "#", one of "<" and ">", and the
\* text json.dump writes for it: ">" when the str key of that text was in
\* the dict before it, "<" otherwise.  No str key of the inputs begins with
\* "#".
IsStrKey(k) == k = "" \/ Head(k) # "#"

\* the key json.dump writes for a key
JsonKey(k) == IF IsStrKey(k) THEN k ELSE Tail(Tail(k))

\* a key that is no str and came into its dict after the str key of its text
After(k) == ~IsStrKey(k) /\ Head(Tail(k)) = ">"

\* what a parser reads from the text json.dump writes for a value: every
\* key of an object is a str, and of two items that json.dump wrote under
\* one key the later one of the dict is read
RECURSIVE JsonValue(_)
JsonValue(v) ==
    IF v.t = "dict"
    THEN LET written(x) ==
                 LET same == {k \in DOMAIN v.d : JsonKey(k) = x}
                     late == {k \in same : After(k)}
                 IN IF late # {} THEN CHOOSE k \in late : TRUE
                    ELSE IF x \in same THEN x
                    ELSE CHOOSE k \in same : TRUE
         IN [v EXCEPT !.d = [x \in {JsonKey(k) : k \in DOMAIN v.d} |->
                                JsonValue(v.d[written(x)])]]
    ELSE IF v.t = "list"
    THEN [v EXCEPT !.l = [i \in DOMAIN v.l |-> JsonValue(v.l[i])]]
    ELSE v

\* json.dump(doc, f, indent=2): the complete text of the document, held as
\* the document json.load reads from it
Dump(doc) == [kind |-> "json", doc |-> JsonValue(D(doc)).d]

\* what a file holds when json.dump stopped after open(..., 'w') truncated it:
\* a proper prefix of a JSON object, which no parser accepts
Truncated == [kind |-> "truncated"]

\* a call reads the wall clock several times and the clock can advance
\* between two readings: t is the sequence of the readings the call gets,
\* in the order it makes them, and the clock stands once they are used up
Reading(t, k) == t[IF k <= Len(t) THEN k ELSE Len(t)]

\* the second a clock reading falls in
Second(t) == t \div TicksPerSecond
\* datetime.now().isoformat()
isoformat(t) == S(<<"T">> \o Dec(t))
\* datetime.now().strftime('%Y%m%d_%H%M%S')
strftime(t) == Dec(Second(t))

----------------------------------------------------------------------------
(* Validator *)

ReservedNames == { <<"s","y","s","t","e","m">>, <<"a","d","m","i","n">>,
                   <<"c","o","n","f","i","g">>, <<"s","e","r","v","e","r">> }
MaxNameLen == 50
MaxDescriptionLen == 500

_validate_context_name(name) ==
    LET body == BeforeDollar(name) IN
    /\ Len(body) >= 1
    /\ \A i \in DOMAIN body : body[i] \in NameChars
    /\ Len(name) >= 1
    /\ Len(name) <= MaxNameLen
    /\ Lower(name) \notin ReservedNames

\* re.match(r'^\d+\.\d+\.\d+$', s)
IsDigits(s) == Len(s) >= 1 /\ \A i \in DOMAIN s : s[i] \in Range(Digits)
MatchesVersion(s) ==
    LET body == BeforeDollar(s) IN
    \E i, j \in DOMAIN body :
        /\ i < j
        /\ body[i] = "." /\ body[j] = "."
        /\ IsDigits(SubSeq(body, 1, i - 1))
        /\ IsDigits(SubSeq(body, i + 1, j - 1))
        /\ IsDigits(SubSeq(body, j + 1, Len(body)))

\* str(v) of a value, as far as the version check can tell values apart
StrOf(v) == IF v.t = "str" THEN v.s
            ELSE IF v.t = "int" THEN Dec(v.n)
            ELSE <<"?">>

OptionalSections == <<"syntax_rules", "preferences", "auto_corrections", "session_initialization">>

ErrMissing(field) == <<"Missing required field", field>>
ErrCategoryType == <<"tool_category must be a string">>
ErrCategoryChars == <<"tool_category contains invalid characters">>
ErrDescriptionType == <<"description must be a string">>
ErrSection(section) == <<section, "must be a dictionary">>
ErrMetadata == <<"metadata must be a dictionary">>
WarnDescription == <<"description is very long (>500 characters)">>
WarnVersion == <<"version should follow semantic versioning (x.y.z)">>

\* the sequence of the elements of seq that satisfy keep, a boolean sequence
RECURSIVE Filter(_, _)
Filter(seq, keep) ==
    IF seq = <<>> THEN <<>>
    ELSE (IF Head(keep) THEN <<Head(seq)>> ELSE <<>>) \o Filter(Tail(seq), Tail(keep))

_validate_context_data(context_data) ==
    LET has(k) == k \in DOMAIN context_data
        sectionErrors ==
            Filter([i \in DOMAIN OptionalSections |-> ErrSection(OptionalSections[i])],
                   [i \in DOMAIN OptionalSections |->
                        /\ has(OptionalSections[i])
                        /\ ~isinstance_dict(context_data[OptionalSections[i]])])
        errors ==
               (IF ~has("tool_category") THEN <<ErrMissing("tool_category")>> ELSE <<>>)
            \o (IF ~has("description") THEN <<ErrMissing("description")>> ELSE <<>>)
            \o (IF has("tool_category")
                THEN IF ~isinstance_str(context_data["tool_category"]) THEN <<ErrCategoryType>>
                     ELSE IF ~_validate_context_name(context_data["tool_category"].s)
                          THEN <<ErrCategoryChars>> ELSE <<>>
                ELSE <<>>)
            \o (IF has("description") /\ ~isinstance_str(context_data["description"])
                THEN <<ErrDescriptionType>> ELSE <<>>)
            \o sectionErrors
            \o (IF has("metadata") /\ ~isinstance_dict(context_data["metadata"])
                THEN <<ErrMetadata>> ELSE <<>>)
        warnings ==
               (IF /\ has("description")
                   /\ isinstance_str(context_data["description"])
                   /\ Len(context_data["description"].s) > MaxDescriptionLen
                THEN <<WarnDescription>> ELSE <<>>)
            \o (IF /\ has("metadata")
                   /\ isinstance_dict(context_data["metadata"])
                   /\ "version" \in DOMAIN context_data["metadata"].d
                   /\ ~MatchesVersion(StrOf(context_data["metadata"].d["version"]))
                THEN <<WarnVersion>> ELSE <<>>)
    IN [errors |-> errors, warnings |-> warnings]

----------------------------------------------------------------------------
(* Loading *)

\* load_context_file: the parsed document, or {} when the file does not parse
load_context_file(content) ==
    IF content.kind = "json" THEN content.doc ELSE EmptyDict

\* the context name load_all_contexts derives from a file name
ContextNameOf(file) ==
    IF EndsWith(file, ContextSuffix) THEN Remove(file, ContextSuffix)
    ELSE Remove(file, JsonSuffix)

TrueText == <<"t","r","u","e">>

\* line 485: os.getenv('AUTO_LOAD_CONTEXTS', 'true').lower() == 'true'; env
\* is the value of the environment variable, None when it is not set
auto_load(env) == Lower(IF env = NoneV THEN TrueText ELSE env.s) = TrueText

\* lines 508-518: the loop over context_files, each assignment replacing an
\* earlier one under the same name
RECURSIVE LoadFiles(_, _, _)
LoadFiles(dir, context_files, loaded) ==
    IF context_files = <<>> THEN loaded
    ELSE LoadFiles(dir, Tail(context_files),
                   Put(loaded, ContextNameOf(Head(context_files)),
                       load_context_file(dir[Head(context_files)])))

\* a store that also scans the backups/ directory
load_all_contexts_deep(dir, env, listing) ==
    LET all == [f \in DOMAIN dir \cup DOMAIN backups |->
                    IF f \in DOMAIN dir THEN dir[f] ELSE backups[f]]
        found == {f \in DOMAIN all : EndsWith(f, JsonSuffix)}
    IN [n \in {ContextNameOf(f) : f \in found} |->
           load_context_file(all[CHOOSE f \in found : ContextNameOf(f) = n])]

\* load_all_contexts on the empty self.contexts of __init__, in a
\* configuration directory that exists.  listing is the order in which the
\* directory yields its entries to glob: the *_context.json files come
\* first in context_files and the other *.json files after them, each group
\* in the order of the listing.  Nothing is loaded when auto-loading is
\* switched off.
load_all_contexts(dir, env, listing) ==
    LET preferred(f) == EndsWith(f, ContextSuffix)
        other(f) == EndsWith(f, JsonSuffix) /\ ~preferred(f)
        context_files == SelectSeq(listing, preferred) \o SelectSeq(listing, other)
    IN IF ~auto_load(env) THEN EmptyDict
       ELSE LoadFiles(dir, context_files, EmptyDict)

----------------------------------------------------------------------------
(* Results of the mutating operations *)

\* the fields of the returned dict that the properties read; raised is TRUE
\* when the call left by an exception instead of returning.  For the readers
\* context_name is the tool identifier, argument the text passed and
\* returned the value the call returned; for the construction of the store
\* argument is the value of AUTO_LOAD_CONTEXTS, for an update the updates
\* passed.  task is the audit task the
\* call handed to the event loop, None when it handed over none.
BaseResult(op, name) ==
    [op |-> op, context_name |-> name, success |-> FALSE, raised |-> FALSE,
     error |-> "none", validation_errors |-> <<>>, warnings |-> <<>>,
     backup_file |-> NoneV, wrote |-> NoneV,
     available_contexts |-> NoneV, existing_file |-> NoneV,
     argument |-> NoneV, returned |-> NoneV, task |-> NoneV]

\* a store whose audit events carry no tags
_store_context_change_in_memory_untagged(operation, context_name) ==
    [t |-> "task", tags |-> <<>>]

\* _store_context_change_in_memory: the store_memory call the task makes,
\* by its tags
_store_context_change_in_memory(operation, context_name) ==
    [t |-> "task", tags |-> <<"context_change", operation, context_name, "automated">>]

\* a store that reports no names
KeyList_none(d) == [t |-> "list", names |-> {}]

\* list(self.contexts.keys()); the model keeps the names, not their order
KeyList(d) == [t |-> "list", names |-> DOMAIN d]

Failure(op, name, error) == [BaseResult(op, name) EXCEPT !.error = error]

\* the state a call leaves behind
Post(f, bk, c, r) ==
    [files |-> f, backupDir |-> bk.backupDir, backups |-> bk.backups,
     contexts |-> c, result |-> r, stderr |-> bk.stderr]

\* no backup was attempted; readings counts the clock readings made
NoBackup ==
    [backupDir |-> backupDir, backups |-> backups, ret |-> NoneV,
     raised |-> FALSE, stderr |-> {}, readings |-> 0]

\* a store that makes backups/ before it looks at the call
Untouched_mkdir(r) == Post(files, [NoBackup EXCEPT !.backupDir = TRUE], contexts, r)

\* a call that touched nothing
Untouched(r) == Post(files, NoBackup, contexts, r)

----------------------------------------------------------------------------
(* Backup Manager *)

BackupFileName(context_name, t) ==
    context_name \o ContextInfix \o strftime(t) \o JsonSuffix

WarnBackup == "Warning: Could not create backup"

\* _backup_context_file.  t is the clock reading of line 851, made when
\* the document has a file and backups/ is there.  bio is what the file
\* system does to the backup: "ok", "mkdir_fail" (backups/ cannot be
\* created), "copy_fail" (copy2 cannot open the destination),
\* "copy_partial" (copy2 has created or truncated the destination and fails
\* while it writes) or "stat_fail" (copy2 has copied the content and fails
\* to copy the file's times and mode).  ret is the returned path or None;
\* raised is TRUE when mkdir's exception leaves the function; stderr is the
\* warning printed when copy2 failed.
_backup_context_file(context_name, t, bio) ==
    LET context_file == context_name \o ContextSuffix
        backup_file == BackupFileName(context_name, t)
    IN IF context_file \notin DOMAIN files THEN NoBackup
       ELSE IF ~backupDir /\ bio = "mkdir_fail" THEN [NoBackup EXCEPT !.raised = TRUE]
       ELSE IF bio = "copy_fail"
       THEN [NoBackup EXCEPT !.backupDir = TRUE, !.stderr = {WarnBackup},
                             !.readings = 1]
       ELSE IF bio \in {"copy_partial", "stat_fail"}
       THEN [NoBackup EXCEPT !.backupDir = TRUE, !.stderr = {WarnBackup},
                             !.readings = 1,
                             !.backups = Put(backups, backup_file,
                                             IF bio = "copy_partial" THEN Truncated
                                             ELSE files[context_file])]
       ELSE [backupDir |-> TRUE,
             backups |-> Put(backups, backup_file, files[context_file]),
             ret |-> S(backup_file),
             raised |-> FALSE,
             stderr |-> {},
             readings |-> 1]

----------------------------------------------------------------------------
(* Writing a document file *)

\* a store that keeps the file it writes and no other
WriteFile_alone(dir, context_file, doc, wio) == [f \in {context_file} |-> Dump(doc)]

\* with open(context_file, 'w') as f: json.dump(doc, f).  wio is what the
\* file system does: "ok", "open_fail" (open raises, the file is untouched)
\* or "truncated" (open truncated the file and the dump stopped part-way)
WriteFile(dir, context_file, doc, wio) ==
    IF wio = "open_fail" THEN dir
    ELSE IF wio = "truncated" THEN Put(dir, context_file, Truncated)
    ELSE Put(dir, context_file, Dump(doc))

\* a store that replaces the map entry before it writes the file
InPlace_swapped(old, new, shared) == new

\* what self.contexts[name] holds after nested dicts shared with the shallow
\* copy were changed in place: the keys of shared take the copy's value
InPlace(old, new, shared) ==
    [k \in DOMAIN old |-> IF k \in shared THEN new[k] ELSE old[k]]

----------------------------------------------------------------------------
(* Context Store: create *)

Medium == <<"m","e","d","i","u","m">>
InitialVersion == <<"1",".","0",".","0">>
CreatedBy ==
    <<"d","y","n","a","m","i","c","_","c","o","n","t","e","x","t","_","m","a","n","a","g","e","m","e","n","t">>
DefaultDescriptionPrefix ==
    <<"D","y","n","a","m","i","c","a","l","l","y"," ","c","r","e","a","t","e","d"," ","c","o","n","t","e","x","t"," ","f","o","r"," ">>

\* the document create_context_file assembles from its arguments
CreateDocument(category, rules, t) ==
    LET base ==
            [k \in {"tool_category", "auto_convert", "metadata", "description"} |->
                IF k = "tool_category" THEN S(category)
                ELSE IF k = "auto_convert" THEN Get(rules, "auto_convert", B(FALSE))
                ELSE IF k = "description"
                     THEN Get(rules, "description", S(DefaultDescriptionPrefix \o category))
                ELSE D([m \in {"version", "last_updated", "created_by",
                               "applies_to_tools", "priority"} |->
                          IF m = "version" THEN S(InitialVersion)
                          ELSE IF m = "last_updated" THEN isoformat(t)
                          ELSE IF m = "created_by" THEN S(CreatedBy)
                          ELSE IF m = "applies_to_tools"
                               THEN Get(rules, "applies_to_tools", L(<<S(category \o <<":", "*">>)>>))
                          ELSE Get(rules, "priority", S(Medium))])]
        sections == {OptionalSections[i] : i \in DOMAIN OptionalSections} \cap DOMAIN rules
    IN [k \in DOMAIN base \cup sections |-> IF k \in sections THEN rules[k] ELSE base[k]]

\* a store that knows a created document only after a reload
create_registered_later(name, context_data) == contexts

\* line 929: self.contexts[name] = context_data
create_registered(name, context_data) == Put(contexts, name, context_data)

\* create_context_file, which reads the clock once (line 894).  aio is what
\* asyncio.create_task does: "dispatched", or "no_loop" when no event loop
\* is running and it raises RuntimeError.
create_context_file(name, category, rules, t, wio, aio) ==
    LET context_file == name \o ContextSuffix
        context_data == CreateDocument(category, rules, Reading(t, 1))
        validation == _validate_context_data(context_data)
        written == WriteFile(files, context_file, context_data, wio)
    IN IF ~_validate_context_name(name)
       THEN Untouched(Failure("create", name, "invalid_name"))
       ELSE IF ~_validate_context_name(category)
       THEN Untouched(Failure("create", name, "invalid_category"))
       ELSE IF context_file \in DOMAIN files
       THEN Untouched([Failure("create", name, "exists")
                          EXCEPT !.existing_file = S(context_file)])
       ELSE IF Len(validation.errors) > 0
       THEN Untouched([Failure("create", name, "validation")
                          EXCEPT !.validation_errors = validation.errors])
       ELSE IF wio # "ok"
       THEN Post(written, NoBackup, contexts, Failure("create", name, "write_failed"))
       ELSE IF aio = "no_loop"
       THEN Post(written, NoBackup, create_registered(name, context_data),
                 [Failure("create", name, "task_failed") EXCEPT !.wrote = S(context_file)])
       ELSE Post(written, NoBackup, create_registered(name, context_data),
                 [BaseResult("create", name) EXCEPT !.success = TRUE,
                                                    !.task = _store_context_change_in_memory("created", name),
                                                    !.warnings = validation.warnings,
                                                    !.wrote = S(context_file)])

----------------------------------------------------------------------------
(* Context Store: update *)

\* the dict key a str makes: the keys of the model's dicts are strings
RECURSIVE KeyText(_)
KeyText(s) == IF s = <<>> THEN "" ELSE Head(s) \o KeyText(Tail(s))

\* the characters of a str key
RECURSIVE Chars(_)
Chars(k) == IF k = "" THEN <<>> ELSE <<Head(k)>> \o Chars(Tail(k))

\* the text json.dump writes for a key that is an int, a bool or None
JsonText(v) ==
    IF v.t = "int" THEN KeyText(IF v.n < 0 THEN <<"-">> \o Dec(-v.n) ELSE Dec(v.n))
    ELSE IF v.t = "bool" THEN (IF v.b THEN "true" ELSE "false")
    ELSE "null"

\* the texts of the keys equal to a key that is no str: True == 1 and
\* False == 0 are one key of a dict
EqualTexts(v) ==
    IF v.t = "int"
    THEN {JsonText(v)} \cup (IF v.n = 1 THEN {"true"} ELSE IF v.n = 0 THEN {"false"} ELSE {})
    ELSE IF v.t = "bool" THEN {JsonText(v), IF v.b THEN "1" ELSE "0"}
    ELSE {"null"}

\* d[key] = value for a hashable key: an equal key the dict holds keeps its
\* place and its own form (d = {1: 'a'}; d[True] = 'b' gives {1: 'b'})
SetItem(d, key, value) ==
    IF key.t = "str" THEN Put(d, KeyText(key.s), value)
    ELSE LET held == {k \in DOMAIN d : ~IsStrKey(k) /\ JsonKey(k) \in EqualTexts(key)}
             text == JsonText(key)
         IN IF held # {} THEN Put(d, CHOOSE k \in held : TRUE, value)
            ELSE Put(d, "#" \o (IF text \in DOMAIN d THEN ">" ELSE "<") \o text, value)

\* int(text) for the text of a natural number
RECURSIVE ParseDigits(_, _)
ParseDigits(text, n) ==
    IF text = "" THEN n
    ELSE ParseDigits(Tail(text),
                     10 * n + (CHOOSE i \in 0..9 : Digits[i + 1] = Head(text)))

\* the Python value of a key
KeyValue(k) ==
    IF IsStrKey(k) THEN S(Chars(k))
    ELSE LET text == JsonKey(k)
         IN IF text = "true" THEN B(TRUE)
            ELSE IF text = "false" THEN B(FALSE)
            ELSE IF text = "null" THEN NoneV
            ELSE IF Head(text) = "-" THEN N(0 - ParseDigits(Tail(text), 0))
            ELSE N(ParseDigits(text, 0))

\* one element of the iterable handed to dict.update, read as a (key, value)
\* pair: a list of two values, a str of two characters or a dict of two
\* keys (iterating a dict yields its keys, so the second key is the
\* value).  ok is FALSE when
\* dict.update raises on the element: it cannot be iterated, it does not
\* have two items, or its first item is a list or a dict and cannot be
\* hashed.
PairOf(element) ==
    LET pair == IF element.t = "list" THEN element.l
                ELSE IF element.t = "str"
                THEN [i \in DOMAIN element.s |-> S(<<element.s[i]>>)]
                ELSE IF element.t = "dict"
                THEN [i \in DOMAIN Items(element) |-> KeyValue(Items(element)[i])]
                ELSE <<>>
    IN IF Len(pair) # 2 THEN [ok |-> FALSE]
       ELSE IF pair[1].t \in {"list", "dict"} THEN [ok |-> FALSE]
       ELSE [ok |-> TRUE, k |-> pair[1], v |-> pair[2]]

\* dict.update on an iterable of pairs: the pairs are set one after another
\* and the pairs before an element that raises stay set
RECURSIVE UpdatePairs(_, _)
UpdatePairs(d, elements) ==
    IF elements = <<>> THEN [raised |-> FALSE, d |-> d]
    ELSE LET pair == PairOf(Head(elements))
         IN IF ~pair.ok THEN [raised |-> TRUE, d |-> d]
            ELSE UpdatePairs(SetItem(d, pair.k, pair.v), Tail(elements))

\* line 991: d.update(value) for a JSON value.  A dict is merged; a list is
\* read as pairs; a str is read character by character, so any but the
\* empty one raises at its first character; a number, a bool or None
\* cannot be iterated.  d is the dict as the call leaves it.
UpdateArgument(d, value) ==
    IF value.t = "dict" THEN [raised |-> FALSE, d |-> DictUpdate(d, value.d)]
    ELSE IF value.t = "list" THEN UpdatePairs(d, value.l)
    ELSE IF value.t = "str"
    THEN UpdatePairs(d, [i \in DOMAIN value.s |-> S(<<value.s[i]>>)])
    ELSE [raised |-> TRUE, d |-> d]

\* a store that takes updates.metadata in place of the document's metadata
MergeUpdates_replaced(current, updates, t) ==
    LET top == [k \in DOMAIN current \cup DOMAIN updates |->
                    IF k \in DOMAIN updates THEN updates[k] ELSE current[k]]
        meta == Get(top, "metadata", D(EmptyDict))
    IN IF ~isinstance_dict(meta) THEN [raised |-> TRUE, doc |-> current]
       ELSE [raised |-> FALSE,
             doc |-> Put(top, "metadata", D(Put(meta.d, "last_updated", isoformat(t))))]

\* lines 982-999: the shallow copy of the current document with updates
\* applied; t is the clock reading of line 999.  raised is TRUE when the
\* merge leaves by an exception (a metadata that is not a dict, or an
\* updates.metadata on which dict.update raises); doc then carries the
\* metadata as dict.update left it.
MergeUpdates(current, updates, t) ==
    LET plain == DOMAIN updates \ {"metadata"}
        top == [k \in DOMAIN current \cup plain |->
                    IF k \in plain THEN updates[k] ELSE current[k]]
        oldMeta == Get(current, "metadata", D(EmptyDict))
        merged == IF "metadata" \in DOMAIN updates
                  THEN UpdateArgument(oldMeta.d, updates["metadata"])
                  ELSE [raised |-> FALSE, d |-> oldMeta.d]
    IN IF ~isinstance_dict(oldMeta)
       THEN [raised |-> TRUE, doc |-> current]
       ELSE IF merged.raised
       THEN [raised |-> TRUE, doc |-> Put(current, "metadata", D(merged.d))]
       ELSE [raised |-> FALSE,
             doc |-> Put(top, "metadata", D(Put(merged.d, "last_updated", isoformat(t))))]

\* a store that ignores the Validator's verdict
update_refused_never(validation) == FALSE

\* a store that refuses a document the Validator warns about
update_refused_warned(validation) ==
    Len(validation.errors) > 0 \/ Len(validation.warnings) > 0

\* line 1003: the merged document is refused
update_refused(validation) == Len(validation.errors) > 0

\* line 1018: the document stored in self.contexts after a completed write
update_stored(current_data) == current_data

\* update_context_rules.  It reads the clock for the backup's name (line
\* 851, when a backup is made), after a dict.update that returned (line
\* 992) and after the loop (line 999), whose reading is the one that stays
\* in last_updated.
update_context_rules(context_name, updates, t, bio, wio, aio) ==
    LET backup == _backup_context_file(context_name, Reading(t, 1), bio)
        old == contexts[context_name]
        inLoop == IF "metadata" \in DOMAIN updates THEN 1 ELSE 0
        merge == MergeUpdates(old, updates, Reading(t, backup.readings + inLoop + 1))
        current_data == merge.doc
        \* current_data['metadata'] is self.contexts[name]['metadata'] itself
        \* when the document had one: the merge changed it in place
        aliased == InPlace(old, current_data, {"metadata"} \cap DOMAIN old)
        validation == _validate_context_data(current_data)
        context_file == context_name \o ContextSuffix
        written == WriteFile(files, context_file, current_data, wio)
        fail(error) == [Failure("update", context_name, error) EXCEPT !.backup_file = backup.ret]
    IN IF ~_validate_context_name(context_name)
       THEN Untouched(Failure("update", context_name, "invalid_name"))
       ELSE IF context_name \notin DOMAIN contexts
       THEN Untouched([Failure("update", context_name, "not_found")
                          EXCEPT !.available_contexts = KeyList(contexts)])
       ELSE IF backup.raised
       \* the except clause reads backup_file, which was never bound
       THEN Untouched([BaseResult("update", context_name) EXCEPT !.raised = TRUE,
                                                                 !.error = "unbound"])
       ELSE IF merge.raised
       \* the pairs dict.update set before it raised stay in the stored metadata
       THEN Post(files, backup,
                 Put(contexts, context_name, aliased), fail("merge_failed"))
       ELSE IF update_refused(validation)
       THEN Post(files, backup,
                 Put(contexts, context_name, aliased),
                 [fail("validation") EXCEPT !.validation_errors = validation.errors])
       ELSE IF wio # "ok"
       THEN Post(written, backup,
                 Put(contexts, context_name, aliased), fail("write_failed"))
       ELSE IF aio = "no_loop"
       THEN Post(written, backup,
                 Put(contexts, context_name, update_stored(current_data)),
                 [fail("task_failed") EXCEPT !.wrote = S(context_file)])
       ELSE Post(written, backup,
                 Put(contexts, context_name, update_stored(current_data)),
                 [BaseResult("update", context_name) EXCEPT !.success = TRUE,
                                                           !.task = _store_context_change_in_memory("updated", context_name),
                                                           !.warnings = validation.warnings,
                                                           !.backup_file = backup.ret,
                                                           !.wrote = S(context_file)])

----------------------------------------------------------------------------
(* Context Store: add_pattern *)

\* a store that takes patterns for any section
ValidSections_any == {"auto_store_triggers", "auto_retrieve_triggers", "bogus"}

\* line 1069: valid_sections
ValidSections == {"auto_store_triggers", "auto_retrieve_triggers"}

\* lines 1082-1095: the shallow copy with the pattern inserted; t is the
\* clock reading of line 1095.  A section
\* or a metadata that is not a dict raises; shared names the nested dicts
\* that were changed in place before the exception or the return.
AddPattern(current, pattern_section, pattern_name, pattern_config, t) ==
    LET oldSection == Get(current, pattern_section, D(EmptyDict))
        oldMeta == Get(current, "metadata", D(EmptyDict))
        withSection == Put(current, pattern_section,
                           D(Put(oldSection.d, pattern_name, pattern_config)))
    IN IF ~isinstance_dict(oldSection)
       THEN [raised |-> TRUE, doc |-> current, shared |-> {}]
       ELSE IF ~isinstance_dict(oldMeta)
       THEN [raised |-> TRUE, doc |-> withSection,
             shared |-> {pattern_section} \cap DOMAIN current]
       ELSE [raised |-> FALSE,
             doc |-> Put(withSection, "metadata",
                         D(Put(oldMeta.d, "last_updated", isoformat(t)))),
             shared |-> {pattern_section, "metadata"} \cap DOMAIN current]

\* add_context_pattern.  It reads the clock for the backup's name (line 851,
\* when a backup is made) and for last_updated (line 1095).
add_context_pattern(context_name, pattern_section, pattern_name, pattern_config, t, bio, wio, aio) ==
    LET backup == _backup_context_file(context_name, Reading(t, 1), bio)
        old == contexts[context_name]
        added == AddPattern(old, pattern_section, pattern_name, pattern_config,
                            Reading(t, backup.readings + 1))
        current_data == added.doc
        aliased == InPlace(old, current_data, added.shared)
        context_file == context_name \o ContextSuffix
        written == WriteFile(files, context_file, current_data, wio)
        fail(error) == [Failure("add_pattern", context_name, error) EXCEPT !.backup_file = backup.ret]
    IN IF ~_validate_context_name(context_name)
       THEN Untouched(Failure("add_pattern", context_name, "invalid_name"))
       ELSE IF context_name \notin DOMAIN contexts
       THEN Untouched([Failure("add_pattern", context_name, "not_found")
                          EXCEPT !.available_contexts = KeyList(contexts)])
       ELSE IF pattern_section \notin ValidSections
       THEN Untouched(Failure("add_pattern", context_name, "invalid_section"))
       ELSE IF backup.raised
       THEN Untouched([BaseResult("add_pattern", context_name) EXCEPT !.raised = TRUE,
                                                                      !.error = "unbound"])
       ELSE IF added.raised
       THEN Post(files, backup,
                 Put(contexts, context_name, aliased), fail("merge_failed"))
       ELSE IF wio # "ok"
       THEN Post(written, backup,
                 Put(contexts, context_name, aliased), fail("write_failed"))
       ELSE IF aio = "no_loop"
       THEN Post(written, backup,
                 Put(contexts, context_name, current_data),
                 [fail("task_failed") EXCEPT !.wrote = S(context_file)])
       ELSE Post(written, backup,
                 Put(contexts, context_name, current_data),
                 [BaseResult("add_pattern", context_name) EXCEPT !.success = TRUE,
                                                                !.task = _store_context_change_in_memory("pattern_added", context_name),
                                                                !.backup_file = backup.ret,
                                                                !.wrote = S(context_file)])

----------------------------------------------------------------------------
(* Context Store: auto-optimize *)

PatternImprovement == <<"p","a","t","t","e","r","n","_","i","m","p","r","o","v","e","m","e","n","t">>
PreferenceTuning == <<"p","r","e","f","e","r","e","n","c","e","_","t","u","n","i","n","g">>
RuleRefinement == <<"r","u","l","e","_","r","e","f","i","n","e","m","e","n","t">>

\* a value a for loop, list.extend and str.join can iterate
Iterable(v) == v.t \in {"list", "str", "dict"}

\* the items iterating a value yields: the elements of a list, the
\* characters of a str, the keys of a dict
Elements(v) ==
    IF v.t = "list" THEN v.l
    ELSE IF v.t = "str" THEN [i \in DOMAIN v.s |-> S(<<v.s[i]>>)]
    ELSE [i \in DOMAIN Items(v) |-> KeyValue(Items(v)[i])]

\* lines 1152-1156: the loop over patterns_data.items(), sections being the
\* keys still to come and done the sections already extended.  extend
\* changes the list of the stored document in place, so the sections
\* extended before a later one raises stay extended; it raises on a
\* patterns value that is no list and on new_patterns that cannot be
\* iterated.
RECURSIVE ExtendSections(_, _, _, _)
ExtendSections(current, patterns_data, sections, done) ==
    IF sections = <<>> THEN [raised |-> FALSE, doc |-> current, shared |-> done]
    ELSE LET section == Head(sections)
             new_patterns == patterns_data.d[section]
             applies ==
                 /\ section \in DOMAIN current
                 /\ isinstance_dict(current[section])
                 /\ "patterns" \in DOMAIN current[section].d
             patterns == current[section].d["patterns"]
             extended == [current[section] EXCEPT
                             !.d = Put(@, "patterns", L(patterns.l \o Elements(new_patterns)))]
         IN IF ~applies
            THEN ExtendSections(current, patterns_data, Tail(sections), done)
            ELSE IF patterns.t # "list" \/ ~Iterable(new_patterns)
            THEN [raised |-> TRUE, doc |-> current, shared |-> done]
            ELSE ExtendSections(Put(current, section, extended), patterns_data,
                                Tail(sections), done \cup {section})

\* lines 1145-1176: the shallow copy with the optimization applied; shared
\* names the nested objects of the stored document that were changed in
\* place.  raised is TRUE when the step leaves by an exception, as it does
\* on an optimization_data that is not a dict; doc and shared then tell
\* what was changed in place before.
ApplyOptimization(current, optimization_data) ==
    LET data == IF isinstance_dict(optimization_data) THEN optimization_data.d ELSE EmptyDict
        type == Get(data, "type", S(<<"u","n","k","n","o","w","n">>))
        key == IF type = S(PreferenceTuning) THEN "preferences" ELSE "syntax_rules"
        values == Get(data, key, D(EmptyDict))
        nested == Get(current, key, D(EmptyDict))
        patterns_data == Get(data, "patterns", D(EmptyDict))
        same == [raised |-> FALSE, doc |-> current, shared |-> {}]
        failed == [raised |-> TRUE, doc |-> current, shared |-> {}]
    IN IF ~isinstance_dict(optimization_data) THEN failed
       ELSE IF type \in {S(PreferenceTuning), S(RuleRefinement)}
       THEN IF ~isinstance_dict(values) THEN failed
            ELSE IF DOMAIN values.d = {}
            THEN [same EXCEPT !.doc = Put(current, key, nested)]
            ELSE IF ~isinstance_dict(nested) THEN failed
            ELSE [raised |-> FALSE,
                  doc |-> Put(current, key, D(DictUpdate(nested.d, values.d))),
                  shared |-> {key} \cap DOMAIN current]
       ELSE IF type = S(PatternImprovement)
       THEN IF ~isinstance_dict(patterns_data) THEN failed
            ELSE ExtendSections(current, patterns_data, Items(patterns_data), {})
       ELSE same

\* line 1195: metadata.get('optimization_count', 0) + 1; ok is FALSE when
\* the addition raises
NextCount(meta) ==
    LET count == Get(meta, "optimization_count", N(0))
    IN IF count.t = "int" THEN [ok |-> TRUE, v |-> N(count.n + 1)]
       ELSE IF count.t = "bool" THEN [ok |-> TRUE, v |-> N((IF count.b THEN 1 ELSE 0) + 1)]
       ELSE [ok |-> FALSE, v |-> count]

\* auto_optimize_context.  It runs inside the event loop, so create_task
\* always finds one.  It reads the clock for the backup's name (line 851,
\* when a backup is made), for last_updated (line 1194) and for
\* last_optimization (line 1195).
auto_optimize_context(context_name, optimization_data, t, bio, wio) ==
    LET old == contexts[context_name]
        applied == ApplyOptimization(old, optimization_data)
        backup == _backup_context_file(context_name, Reading(t, 1), bio)
        validation == _validate_context_data(applied.doc)
        meta == Get(applied.doc, "metadata", D(EmptyDict))
        stamped == Put(Put(meta.d, "last_updated", isoformat(Reading(t, backup.readings + 1))),
                       "last_optimization", isoformat(Reading(t, backup.readings + 2)))
        next == NextCount(meta.d)
        current_context == Put(applied.doc, "metadata",
                               D(Put(stamped, "optimization_count", next.v)))
        sharedMeta == applied.shared \cup ({"metadata"} \cap DOMAIN old)
        context_file == context_name \o ContextSuffix
        written == WriteFile(files, context_file, current_context, wio)
        fail == Failure("optimize", context_name, "optimize_failed")
    IN IF context_name \notin DOMAIN contexts
       THEN Untouched(Failure("optimize", context_name, "not_found"))
       ELSE IF applied.raised
       THEN Post(files, NoBackup,
                 Put(contexts, context_name, InPlace(old, applied.doc, applied.shared)),
                 fail)
       ELSE IF backup.raised
       THEN Post(files, backup,
                 Put(contexts, context_name, InPlace(old, applied.doc, applied.shared)),
                 fail)
       ELSE IF Len(validation.errors) > 0
       THEN Post(files, backup,
                 Put(contexts, context_name, InPlace(old, applied.doc, applied.shared)),
                 [Failure("optimize", context_name, "validation")
                     EXCEPT !.validation_errors = validation.errors,
                            !.backup_file = backup.ret])
       ELSE IF ~next.ok
       THEN Post(files, backup,
                 Put(contexts, context_name,
                     InPlace(old, Put(applied.doc, "metadata", D(stamped)), sharedMeta)),
                 fail)
       ELSE IF wio # "ok"
       THEN Post(written, backup,
                 Put(contexts, context_name, InPlace(old, current_context, sharedMeta)),
                 fail)
       ELSE Post(written, backup,
                 Put(contexts, context_name, current_context),
                 [BaseResult("optimize", context_name) EXCEPT !.success = TRUE,
                                                             !.task = _store_context_change_in_memory("optimized", context_name),
                                                             !.backup_file = backup.ret,
                                                             !.wrote = S(context_file)])

----------------------------------------------------------------------------
(* Context Store: get by tool *)

\* tool_name.split(':')[0]
RECURSIVE FirstField(_)
FirstField(s) ==
    IF s = <<>> \/ Head(s) = ":" THEN <<>> ELSE <<Head(s)>> \o FirstField(Tail(s))

\* a store that looks the whole tool identifier up
get_tool_context_whole(tool_name) == Get(contexts, tool_name, EmptyDict)

\* get_tool_context
get_tool_context(tool_name) ==
    LET tool_category == IF \E i \in DOMAIN tool_name : tool_name[i] = ":"
                         THEN FirstField(tool_name)
                         ELSE tool_name
    IN Get(contexts, tool_category, EmptyDict)

----------------------------------------------------------------------------
(* Context Store: apply corrections *)

\* sub in s, for two strings
Contains(s, sub) ==
    \E i \in 0..(Len(s) - Len(sub)) : SubSeq(s, i + 1, i + Len(sub)) = sub

PatternKey == <<"p","a","t","t","e","r","n">>
ReplacementKey == <<"r","e","p","l","a","c","e","m","e","n","t">>

\* line 563: 'pattern' in correction_rule and 'replacement' in
\* correction_rule, for a rule of any JSON type; raised is TRUE when the
\* membership test raises TypeError
Member(rule) ==
    IF rule.t = "dict"
    THEN [raised |-> FALSE, holds |-> {"pattern", "replacement"} \subseteq DOMAIN rule.d]
    ELSE IF rule.t = "str"
    THEN [raised |-> FALSE,
          holds |-> Contains(rule.s, PatternKey) /\ Contains(rule.s, ReplacementKey)]
    ELSE IF rule.t = "list"
    THEN [raised |-> FALSE,
          holds |-> /\ \E i \in DOMAIN rule.l : rule.l[i] = S(PatternKey)
                    /\ \E i \in DOMAIN rule.l : rule.l[i] = S(ReplacementKey)]
    ELSE [raised |-> TRUE, holds |-> FALSE]

\* re.compile on the patterns of the inputs, which are made of characters
\* that stand for themselves and of '(' and '[': a '(' or a '[' that is
\* never closed is a re.error
re_compiles(pattern) ==
    LET chars == {pattern[i] : i \in DOMAIN pattern}
    IN /\ ("(" \in chars => ")" \in chars)
       /\ ("[" \in chars => "]" \in chars)

\* re.sub of a pattern of literal characters: every occurrence, leftmost
\* first and not overlapping, becomes the replacement; the empty pattern
\* matches before every character and at the end
RECURSIVE SubLiteral(_, _, _)
SubLiteral(pattern, replacement, text) ==
    IF pattern = <<>>
    THEN IF text = <<>> THEN replacement
         ELSE replacement \o <<Head(text)>> \o SubLiteral(pattern, replacement, Tail(text))
    ELSE IF Len(text) < Len(pattern) THEN text
    ELSE IF SubSeq(text, 1, Len(pattern)) = pattern
    THEN replacement \o SubLiteral(pattern, replacement,
                                   SubSeq(text, Len(pattern) + 1, Len(text)))
    ELSE <<Head(text)>> \o SubLiteral(pattern, replacement, Tail(text))

\* re.sub(pattern, replacement, text, flags=re.MULTILINE) on JSON values;
\* error names the exception raised, "none" when it returned
re_sub(pattern, replacement, text) ==
    IF pattern.t # "str" THEN [error |-> "TypeError", text |-> text]
    ELSE IF ~re_compiles(pattern.s) THEN [error |-> "re.error", text |-> text]
    ELSE IF replacement.t # "str" THEN [error |-> "TypeError", text |-> text]
    ELSE [error |-> "none", text |-> SubLiteral(pattern.s, replacement.s, text)]

\* a store that lets a pattern's error leave the call
caught_nothing(error) == FALSE

\* line 568: except re.error
caught(error) == error = "re.error"

\* lines 562-570: the loop over the items still to come
RECURSIVE Corrected(_, _, _)
Corrected(names, rules, corrected_text) ==
    IF names = <<>> THEN [raised |-> FALSE, text |-> corrected_text]
    ELSE LET correction_rule == rules[Head(names)]
             member == Member(correction_rule)
             sub == re_sub(correction_rule.d["pattern"],
                           correction_rule.d["replacement"], corrected_text)
             raise == [raised |-> TRUE, text |-> corrected_text]
         IN IF member.raised THEN raise
            ELSE IF ~member.holds THEN Corrected(Tail(names), rules, corrected_text)
            \* correction_rule['pattern'] on a str or a list
            ELSE IF correction_rule.t # "dict" THEN raise
            ELSE IF sub.error = "none" THEN Corrected(Tail(names), rules, sub.text)
            ELSE IF caught(sub.error) THEN Corrected(Tail(names), rules, corrected_text)
            ELSE raise

\* apply_auto_corrections
apply_auto_corrections(tool_name, text) ==
    LET context == get_tool_context(tool_name)
        auto_corrections == Get(context, "auto_corrections", D(EmptyDict))
    IN IF ~isinstance_dict(auto_corrections) THEN [raised |-> TRUE, text |-> text]
       ELSE Corrected(Items(auto_corrections), auto_corrections.d, text)

----------------------------------------------------------------------------
(* Session Initializer *)

RecallMemory == <<"r","e","c","a","l","l","_","m","e","m","o","r","y">>
SearchByTag == <<"s","e","a","r","c","h","_","b","y","_","t","a","g">>
StoreMemory == <<"s","t","o","r","e","_","m","e","m","o","r","y">>

\* lines 461-467: the session status of a store that has run nothing; a key
\* the dict does not hold yet is None here
InitialStatus ==
    [initialized |-> FALSE, initialization_time |-> NoneV,
     executed_actions |-> <<>>, errors |-> <<>>,
     memory_retrieval_results |-> EmptyDict,
     execution_time_seconds |-> NoneV, initialized_contexts |-> NoneV,
     learning_insights |-> NoneV]

\* a store that goes on with the status of the run before
fresh_status_merged(t) == [session_status EXCEPT !.initialization_time = isoformat(t)]

\* lines 577-583: the status a run starts from; t is the clock reading of
\* line 579
fresh_status(t) == [InitialStatus EXCEPT !.initialization_time = isoformat(t)]

\* bool(v) of a JSON value
Truthy(v) ==
    IF v.t = "bool" THEN v.b
    ELSE IF v.t = "int" THEN v.n # 0
    ELSE IF v.t = "str" THEN Len(v.s) > 0
    ELSE IF v.t = "list" THEN Len(v.l) > 0
    ELSE IF v.t = "dict" THEN DOMAIN v.d # {}
    ELSE FALSE

\* a store that runs the startup actions of every document
session_enabled_always(session_init) == TRUE

\* line 591: session_init.get('enabled', False)
session_enabled(session_init) == Truthy(Get(session_init.d, "enabled", B(FALSE)))

\* MemoryServiceIntegration.  mio is the state of the memory service a call
\* finds: "ok" (the service of the repository, memory_available True),
\* "error" (memory_available is False: every call returns success False) or
\* "raise" (the call raises).  A call answers "ok" for success True and
\* "error" for success False; the service catches what its own body
\* raises and returns success False.

\* lines 77-136: query.lower() needs a str and results[:n_results] an int,
\* a bool or None
recall_memory(query, n_results, mio) ==
    IF mio # "ok" THEN mio
    ELSE IF query.t = "str" /\ n_results.t \in {"int", "bool", "none"} THEN "ok"
    ELSE "error"

\* lines 138-187: the loop over tags looks every tag up in a dict, so tags
\* must be iterable and every item hashable, as the characters of a str and
\* the keys of a dict are
search_by_tag(tags, mio) ==
    IF mio # "ok" THEN mio
    ELSE IF tags.t \in {"str", "dict"} THEN "ok"
    ELSE IF tags.t = "list" /\ \A i \in DOMAIN tags.l : tags.l[i].t \notin {"list", "dict"}
    THEN "ok"
    ELSE "error"

\* lines 48-75: content[:100] and len(content) need a str or a list
store_memory(content, tags, metadata, mio) ==
    IF mio # "ok" THEN mio
    ELSE IF content.t \in {"str", "list"} THEN "ok"
    ELSE "error"

\* the cut of the content in the result of a stored memory (line 701) and
\* of one that could not be stored (line 709)
StoredContentLen == 100
FailedContentLen == 50

\* ', '.join(tags) returns: tags is iterable and every item is a str, as
\* the characters of a str are
Joins(tags) ==
    \/ tags.t = "str"
    \/ tags.t = "list" /\ \A i \in DOMAIN tags.l : tags.l[i].t = "str"
    \/ tags.t = "dict" /\ \A k \in DOMAIN tags.d : IsStrKey(k)

\* content[:limit] + '...' if len(content) > limit else content returns:
\* content has a length, and one over the limit only when it is a str
Shortens(content, limit) ==
    \/ content.t = "str"
    \/ content.t = "list" /\ Len(content.l) <= limit
    \/ content.t = "dict" /\ Cardinality(DOMAIN content.d) <= limit

\* _execute_memory_action.  The result is "ok" (the dict of a successful
\* call), "failed" (the dict that reports the service's error), "exception"
\* (the dict of the except clause: something raised inside the try, be it
\* parameters that is no dict, the service, or the making of the result
\* dict after the service answered) or "unknown" (no such action type);
\* none of them leaves by an exception.
_execute_memory_action(action_type, parameters, mio) ==
    LET given(key, default) == Get(parameters.d, key, default)
        query == given("query", S(<<>>))
        n_results == given("n_results", N(5))
        tags == given("tags", L(<<>>))
        content == given("content", S(<<>>))
        metadata == given("metadata", D(EmptyDict))
        answer == IF action_type = S(RecallMemory) THEN recall_memory(query, n_results, mio)
                  ELSE IF action_type = S(SearchByTag) THEN search_by_tag(tags, mio)
                  ELSE store_memory(content, tags, metadata, mio)
        \* lines 655-661, 676-682 and 699-705
        succeeded ==
            IF action_type = S(RecallMemory) THEN TRUE
            ELSE IF action_type = S(SearchByTag) THEN Joins(tags)
            ELSE Shortens(content, StoredContentLen) /\ Joins(tags)
        \* lines 663-668, 684-689 and 707-712
        reported ==
            action_type = S(StoreMemory) => Shortens(content, FailedContentLen)
    IN IF action_type \notin {S(RecallMemory), S(SearchByTag), S(StoreMemory)} THEN "unknown"
       ELSE IF ~isinstance_dict(parameters) \/ answer = "raise" THEN "exception"
       ELSE IF answer = "ok" THEN (IF succeeded THEN "ok" ELSE "exception")
       ELSE IF reported THEN "failed" ELSE "exception"

\* what the memory service does for the next startup action, should the
\* action call it; the service works when no outcome is left
NextOutcome(mios) == IF mios = <<>> THEN "ok" ELSE Head(mios)

LaterOutcomes(mios) == IF mios = <<>> THEN <<>> ELSE Tail(mios)

\* lines 616-643: the loop over on_startup.  result_summary stands for the
\* summary text by the kind of result it reports; the description text is
\* left out of the entry.  An action_config that is no
\* dict raises inside the try and again inside the except clause, which
\* calls action_config.get: raised is TRUE and the run is left.
RECURSIVE StartupActions(_, _, _, _)
StartupActions(context_name, on_startup, status, mios) ==
    IF on_startup = <<>> THEN [raised |-> FALSE, status |-> status, mios |-> mios]
    ELSE LET action_config == Head(on_startup)
             action_type == Get(action_config.d, "action", NoneV)
             parameters == Get(action_config.d, "parameters", D(EmptyDict))
             memory_result == _execute_memory_action(action_type, parameters, NextOutcome(mios))
             entry == [context |-> context_name, action |-> action_type,
                       parameters |-> parameters, result_summary |-> memory_result,
                       status |-> "success"]
             retrieved ==
                 IF action_type.t = "str" /\ action_type.s \in {RecallMemory, SearchByTag}
                 THEN Put(status.memory_retrieval_results,
                          context_name \o <<"_">> \o action_type.s, memory_result)
                 ELSE status.memory_retrieval_results
         IN IF ~isinstance_dict(action_config)
            THEN [raised |-> TRUE, status |-> status, mios |-> mios]
            ELSE StartupActions(context_name, Tail(on_startup),
                                [status EXCEPT !.executed_actions = Append(@, entry),
                                               !.memory_retrieval_results = retrieved],
                                LaterOutcomes(mios))

\* _execute_context_initialization of a document whose
\* session_initialization is a dict
_execute_context_initialization(context_name, context_data, status, mios) ==
    LET session_init == Get(context_data, "session_initialization", D(EmptyDict))
        actions == Get(session_init.d, "actions", D(EmptyDict))
        on_startup == Get(actions.d, "on_startup", L(<<>>))
        raise == [raised |-> TRUE, status |-> status, mios |-> mios]
    IN IF ~isinstance_dict(actions) THEN raise
       ELSE IF on_startup.t = "list"
       THEN StartupActions(context_name, on_startup.l, status, mios)
       \* an empty str or dict has nothing to iterate; any other value
       \* raises, at the loop or at the first action_config.get
       ELSE IF on_startup = S(<<>>) \/ on_startup = D(EmptyDict)
       THEN [raised |-> FALSE, status |-> status, mios |-> mios]
       ELSE raise

\* lines 587-593: the loop over self.contexts.items(), in the order given;
\* names collects initialized_contexts
RECURSIVE InitializeContexts(_, _, _, _)
InitializeContexts(order, names, status, mios) ==
    IF order = <<>> THEN [raised |-> FALSE, status |-> status, names |-> names]
    ELSE LET context_name == Head(order)
             context_data == contexts[context_name]
             session_init == Get(context_data, "session_initialization", D(EmptyDict))
             done == _execute_context_initialization(context_name, context_data, status, mios)
         IN IF ~isinstance_dict(session_init)
            THEN [raised |-> TRUE, status |-> status, names |-> names]
            ELSE IF ~session_enabled(session_init)
            THEN InitializeContexts(Tail(order), names, status, mios)
            ELSE IF done.raised
            THEN [raised |-> TRUE, status |-> done.status, names |-> names]
            ELSE InitializeContexts(Tail(order), Append(names, S(context_name)),
                                    done.status, done.mios)

\* learn_from_session_patterns: learning_result['success'].  lio is what the
\* memory service does with the engine's store_memory call; the engine
\* fails only when that call raises
learn_from_session_patterns(session_data, lio) ==
    session_data.initialized /\ lio # "raise"

\* lines 595-599: the status once the loop over the documents is through;
\* execution_time is time.time() - start_time, counted in clock ticks
completed_status(status, names, execution_time) ==
    [status EXCEPT !.execution_time_seconds = N(execution_time),
                   !.initialized = TRUE,
                   !.initialized_contexts = L(names)]

\* execute_session_initialization.  order is the order of
\* self.contexts.items().  The run reads the clock for start_time (line
\* 576), for initialization_time (line 579) and for the execution time
\* (line 596).  After a successful learning step line 603 reads
\* learning_result['insights'], a key the engine does not return (it
\* returns insights_gained): the run is left by KeyError, with the status
\* already in place.
execute_session_initialization(order, t, mios, lio) ==
    LET start_time == Reading(t, 1)
        run == InitializeContexts(order, <<>>, fresh_status(Reading(t, 2)), mios)
        completed == completed_status(run.status, run.names, Reading(t, 3) - start_time)
    IN IF run.raised THEN [raised |-> TRUE, status |-> run.status]
       ELSE IF learn_from_session_patterns(completed, lio)
       THEN [raised |-> TRUE, status |-> completed]
       ELSE [raised |-> FALSE, status |-> completed]

\* get_session_status: a copy of the status
get_session_status == session_status

----------------------------------------------------------------------------
(* Inputs *)

NameA == <<"a">>
NameB == <<"b">>
NameSystem == <<"s","y","s","t","e","m">>
\* a name that ends in a line feed
NameNewline == <<"a","\n">>
CategoryC == <<"c">>
CategoryBad == <<"x"," ","y">>

\* a document as a user's editor saved it before the store started
SeedDocument(category, description) ==
    [k \in {"tool_category", "description", "metadata"} |->
        IF k = "tool_category" THEN S(category)
        ELSE IF k = "description" THEN S(description)
        ELSE D([m \in {"version", "last_updated"} |->
                  IF m = "version" THEN S(InitialVersion) ELSE isoformat(0)])]

\* a document file without the required description
IncompleteDocument(category) == [k \in {"tool_category"} |-> S(category)]

\* a document the Validator accepts whose trigger section is not an object
OddDocument(category) ==
    [k \in {"tool_category", "description", "auto_store_triggers"} |->
        IF k = "tool_category" THEN S(category)
        ELSE IF k = "description" THEN S(<<"d">>)
        ELSE S(<<"x">>)]

File(name, suffix, content) == [f \in {name \o suffix} |-> content]

\* the configuration directories the store is started on
InitialDirectories ==
    { EmptyDict,
      File(NameA, ContextSuffix, Dump(SeedDocument(NameA, <<"d">>))),
      File(NameA, JsonSuffix, Dump(SeedDocument(NameA, <<"d">>))),
      File(NameA, ContextSuffix, Dump(SeedDocument(NameA, <<"d">>)))
          @@ File(NameA, JsonSuffix, Dump(SeedDocument(NameA, <<"o">>))),
      File(NameA, ContextSuffix, Dump(SeedDocument(NameA, <<"d">>)))
          @@ File(NameB, ContextSuffix, Dump(SeedDocument(NameB, <<"d">>))),
      File(NameA, ContextSuffix, Dump(IncompleteDocument(NameA))),
      File(NameA, ContextSuffix, Dump(OddDocument(NameA))),
      File(NameA, ContextSuffix, Truncated),
      File(NameSystem, ContextSuffix, Dump(SeedDocument(NameA, <<"d">>))),
      \* a.json and a.json.json: two files of one group that give one name
      File(NameA, JsonSuffix, Dump(SeedDocument(NameA, <<"1">>)))
          @@ File(NameA \o JsonSuffix, JsonSuffix, Dump(SeedDocument(NameA, <<"2">>))) }

\* the values of AUTO_LOAD_CONTEXTS the store is started under: not set,
\* "TRUE", "false" and "0"
EnvInputs == {NoneV, S(<<"T","R","U","E">>), S(<<"f","a","l","s","e">>), S(<<"0">>)}

\* ContextProvider.__init__ on the directory files, at the last tick of a
\* second: env is the value of AUTO_LOAD_CONTEXTS, which the result of the
\* construction keeps as argument, and listing the order in which the
\* directory lists its files
Startup(env, listing) ==
    /\ backupDir = FALSE
    /\ backups = EmptyDict
    /\ contexts = load_all_contexts(files, env, listing)
    /\ now = TicksPerSecond - 1
    /\ result = [BaseResult("init", <<>>) EXCEPT !.argument = env]
    /\ stderr = {}
    /\ session_status = InitialStatus

\* a description one character over the limit of the Validator's warning
LongDescription == [i \in 1..(MaxDescriptionLen + 1) |-> "x"]

CreateNames == {NameA, NameB, NameSystem, NameNewline}
Categories == {CategoryC, CategoryBad}
RulesInputs ==
    { EmptyDict,
      [k \in {"description"} |-> S(<<"r">>)],
      [k \in {"description"} |-> N(7)],
      [k \in {"description"} |-> S(LongDescription)],
      [k \in {"preferences"} |-> D([p \in {"style"} |-> S(<<"s">>)])] }

UpdateNames == {NameA, NameB, NameSystem}
UpdatesInputs ==
    { [k \in {"description"} |-> S(<<"e">>)],
      [k \in {"description"} |-> N(7)],
      [k \in {"metadata"} |-> D([m \in {"priority"} |-> S(<<"h">>)])],
      [k \in {"metadata", "description"} |->
          IF k = "metadata" THEN D([m \in {"priority"} |-> S(<<"h">>)]) ELSE N(7)],
      [k \in {"metadata", "description"} |->
          IF k = "metadata" THEN D([m \in {"version"} |-> S(<<"2">>)])
          ELSE S(LongDescription)],
      \* metadata as a list of pairs, ["1b", [1, "i"], [true, "j"]], whose
      \* keys are the str "1" and the int 1, and as one whose second element
      \* is no pair
      [k \in {"metadata"} |->
          L(<<S(<<"1", "b">>), L(<<N(1), S(<<"i">>)>>), L(<<B(TRUE), S(<<"j">>)>>)>>)],
      [k \in {"metadata"} |-> L(<<L(<<S(<<"k">>), S(<<"v">>)>>), N(7)>>)] }

SectionInputs == {"auto_store_triggers", "auto_retrieve_triggers", "bogus"}
PatternNames == {"p"}
PatternConfigs == { D([k \in {"action"} |-> S(<<"s">>)]) }

BackupOutcomes == {"ok", "mkdir_fail", "copy_fail", "copy_partial", "stat_fail"}
WriteOutcomes == {"ok", "open_fail", "truncated"}
TaskOutcomes == {"dispatched", "no_loop"}

\* the clock readings a call starting now can get for its n readings: each
\* the next tick or the first tick of the next second, none earlier than
\* the one before
Readings(n) ==
    {t \in [1..n -> {now + 1, now + TicksPerSecond}] :
        \A i \in 1..n, j \in 1..n : i <= j => t[i] <= t[j]}

----------------------------------------------------------------------------
(* Specification *)

\* the store is started on one of the initial directories
Init ==
    /\ files \in InitialDirectories
    /\ \E env \in EnvInputs, listing \in Orders(DOMAIN files) : Startup(env, listing)

\* the state after a call; the clock stands at the call's last reading
Call(post, t) ==
    /\ t[Len(t)] <= MaxClock
    /\ now' = t[Len(t)]
    /\ files' = post.files
    /\ backupDir' = post.backupDir
    /\ backups' = post.backups
    /\ contexts' = post.contexts
    /\ result' = post.result
    /\ stderr' = post.stderr
    /\ session_status' = session_status

Create ==
    \E name \in CreateNames, category \in Categories, rules \in RulesInputs,
       t \in Readings(1), wio \in WriteOutcomes, aio \in TaskOutcomes :
        Call(create_context_file(name, category, rules, t, wio, aio), t)

Update ==
    \E name \in UpdateNames, updates \in UpdatesInputs, t \in Readings(2),
       bio \in BackupOutcomes, wio \in WriteOutcomes, aio \in TaskOutcomes :
        Call([update_context_rules(name, updates, t, bio, wio, aio)
                 EXCEPT !.result.argument = D(updates)], t)

AddPatternCall ==
    \E name \in UpdateNames, section \in SectionInputs, pattern_name \in PatternNames,
       config \in PatternConfigs, t \in Readings(2),
       bio \in BackupOutcomes, wio \in WriteOutcomes, aio \in TaskOutcomes :
        Call(add_context_pattern(name, section, pattern_name, config, t, bio, wio, aio), t)

Next == Create \/ Update \/ AddPatternCall

Spec == Init /\ [][Next]_vars

----------------------------------------------------------------------------
(* Specification of the store with its readers *)

\* tool identifiers: "a:x", "a:y", "a", "a:x:y", "b:x", "c:x", ":a", "a:"
ToolNames ==
    { <<"a",":","x">>, <<"a",":","y">>, <<"a">>, <<"a",":","x",":","y">>,
      <<"b",":","x">>, <<"c",":","x">>, <<":","a">>, <<"a",":">> }

\* a call of get_tool_context; the result records the tool identifier as
\* context_name and the returned document as returned
GetToolContext ==
    \E tool_name \in ToolNames, t \in Readings(1) :
        Call(Untouched([BaseResult("get_tool_context", tool_name)
                           EXCEPT !.returned = D(get_tool_context(tool_name))]), t)

NextResolve == Create \/ Update \/ AddPatternCall \/ GetToolContext

SpecResolve == Init /\ [][NextResolve]_vars

----------------------------------------------------------------------------
(* Specification of apply_auto_corrections: the store is started on a
   document whose auto_corrections section is drawn from the rule lists, and
   the action applies it to a text *)

Rule(pattern, replacement) ==
    D([k \in {"pattern", "replacement"} |->
          IF k = "pattern" THEN pattern ELSE replacement])

\* a-to-b, b-to-c, a rule without pattern, a rule without replacement, a
\* pattern that does not compile, a pattern that is a number
RuleInputs ==
    { Rule(S(<<"a">>), S(<<"b">>)),
      Rule(S(<<"b">>), S(<<"c">>)),
      D([k \in {"replacement"} |-> S(<<"z">>)]),
      D([k \in {"pattern"} |-> S(<<"b">>)]),
      Rule(S(<<"(">>), S(<<"z">>)),
      Rule(N(7), S(<<"z">>)) }

RuleNames == <<"r1", "r2", "r3", "r4", "r5">>

\* the auto_corrections section that holds the rules of list in this order
AutoCorrections(list) ==
    OD(SubSeq(RuleNames, 1, Len(list)),
       [name \in {RuleNames[i] : i \in DOMAIN list} |->
           list[CHOOSE i \in DOMAIN list : RuleNames[i] = name]])

RuleLists == UNION { [1..n -> RuleInputs] : n \in 0..MaxRules }

CorrectionsDocument(list) ==
    Put(SeedDocument(NameA, <<"d">>), "auto_corrections", AutoCorrections(list))

Texts == { <<"a">>, <<"a","b","a">>, <<"b"," ","a","a">> }

InitCorrections ==
    /\ \E list \in RuleLists :
          files = File(NameA, ContextSuffix, Dump(CorrectionsDocument(list)))
    /\ \E env \in EnvInputs, listing \in Orders(DOMAIN files) : Startup(env, listing)

\* a call of apply_auto_corrections
ApplyCorrections ==
    \E tool_name \in {<<"a",":","x">>, <<"b",":","x">>}, text \in Texts, t \in Readings(1) :
        LET out == apply_auto_corrections(tool_name, text)
        IN Call(Untouched([BaseResult("apply_auto_corrections", tool_name)
                              EXCEPT !.argument = S(text),
                                     !.raised = out.raised,
                                     !.returned = IF out.raised THEN NoneV ELSE S(out.text)]),
                t)

NextCorrections == ApplyCorrections

SpecCorrections == InitCorrections /\ [][NextCorrections]_vars

----------------------------------------------------------------------------
(* Specification of the optimization counter: update, add_pattern and
   auto-optimize on documents that carry a counter *)

\* a document file that has been optimized count times
CountedDocument(category, count) ==
    Put(SeedDocument(category, <<"d">>), "metadata",
        D(Put(SeedDocument(category, <<"d">>)["metadata"].d, "optimization_count", N(count))))

\* a document whose two trigger sections each hold a list of patterns
PatternDocument(category) ==
    Put(Put(SeedDocument(category, <<"d">>),
            "auto_store_triggers", D(Put(EmptyDict, "patterns", L(<<S(<<"x">>)>>)))),
        "auto_retrieve_triggers", D(Put(EmptyDict, "patterns", L(<<S(<<"y">>)>>))))

OptimizeDirectories ==
    { File(NameA, ContextSuffix, Dump(SeedDocument(NameA, <<"d">>))),
      File(NameA, ContextSuffix, Dump(CountedDocument(NameA, 1))),
      File(NameA, ContextSuffix, Dump(IncompleteDocument(NameA))),
      File(NameA, ContextSuffix, Dump(PatternDocument(NameA))) }

\* optimization_data of type pattern_improvement whose patterns name the
\* store section, then the retrieve section
PatternData(store, retrieve) ==
    D([k \in {"type", "patterns"} |->
        IF k = "type" THEN S(PatternImprovement)
        ELSE OD(<<"auto_store_triggers", "auto_retrieve_triggers">>,
                [p \in {"auto_store_triggers", "auto_retrieve_triggers"} |->
                    IF p = "auto_store_triggers" THEN store ELSE retrieve])])

\* the optimization_data of a call: the tool's default FALSE, a dict without
\* type, and dicts of each type
OptimizationInputs ==
    { B(FALSE),
      D(EmptyDict),
      D([k \in {"type", "preferences"} |->
          IF k = "type" THEN S(PreferenceTuning) ELSE D([p \in {"style"} |-> S(<<"t">>)])]),
      D([k \in {"type", "syntax_rules"} |->
          IF k = "type" THEN S(RuleRefinement) ELSE D([p \in {"links"} |-> S(<<"l">>)])]),
      D([k \in {"type", "patterns"} |->
          IF k = "type" THEN S(PatternImprovement)
          ELSE D([p \in {"auto_store_triggers"} |-> L(<<S(<<"q">>)>>)])]),
      \* new patterns that are a str and a dict, and new patterns of the
      \* second section that cannot be iterated
      PatternData(S(<<"u", "v">>), D(Put(EmptyDict, "w", N(1)))),
      PatternData(L(<<S(<<"q">>)>>), N(7)) }

\* updates that name the counter
CountUpdates ==
    { [k \in {"description"} |-> S(<<"e">>)],
      [k \in {"metadata"} |-> D([m \in {"optimization_count"} |-> N(0)])] }

InitOptimize ==
    /\ files \in OptimizeDirectories
    /\ \E env \in EnvInputs, listing \in Orders(DOMAIN files) : Startup(env, listing)

UpdateCount ==
    \E name \in {NameA, NameB}, updates \in CountUpdates, t \in Readings(2),
       bio \in BackupOutcomes, wio \in WriteOutcomes, aio \in TaskOutcomes :
        Call(update_context_rules(name, updates, t, bio, wio, aio), t)

AutoOptimize ==
    \E name \in {NameA, NameB}, optimization_data \in OptimizationInputs, t \in Readings(3),
       bio \in BackupOutcomes, wio \in WriteOutcomes :
        Call(auto_optimize_context(name, optimization_data, t, bio, wio), t)

NextOptimize == UpdateCount \/ AddPatternCall \/ AutoOptimize

SpecOptimize == InitOptimize /\ [][NextOptimize]_vars

----------------------------------------------------------------------------
(* Specification of session initialization: runs and status queries *)

Bogus == <<"b","o","g","u","s">>

\* one entry of on_startup
StartupAction(action, parameters) ==
    D(Put(Put(EmptyDict, "action", S(action)), "parameters", parameters))

QueryParameters == D(Put(EmptyDict, "query", S(<<"q">>)))

Recall == StartupAction(RecallMemory, QueryParameters)
Search == StartupAction(SearchByTag, D(Put(EmptyDict, "tags", L(<<S(<<"t">>)>>))))
Store == StartupAction(StoreMemory, D(Put(EmptyDict, "content", S(<<"c">>))))
Unknown == StartupAction(Bogus, D(EmptyDict))
\* parameters that is no object
RecallText == StartupAction(RecallMemory, S(<<"q">>))
\* a query that is no str
RecallNumber == StartupAction(RecallMemory, D(Put(EmptyDict, "query", N(7))))
\* tags that hold an int, and tags that are an int
SearchNumbers == StartupAction(SearchByTag, D(Put(EmptyDict, "tags", L(<<N(1)>>))))
SearchNumber == StartupAction(SearchByTag, D(Put(EmptyDict, "tags", N(7))))
\* content that is an int, content that is a list one item over the cut of
\* a failed store, and tags that are an int
StoreNumber == StartupAction(StoreMemory, D(Put(EmptyDict, "content", N(7))))
StoreLong ==
    StartupAction(StoreMemory,
                  D(Put(EmptyDict, "content", L([i \in 1..(FailedContentLen + 1) |-> N(0)]))))
StoreTagged ==
    StartupAction(StoreMemory, D(Put(Put(EmptyDict, "content", S(<<"c">>)), "tags", N(7))))

\* a document with a session_initialization section
SessionDocument(category, enabled, actions) ==
    Put(SeedDocument(category, <<"d">>), "session_initialization",
        D(Put(Put(EmptyDict, "enabled", enabled), "actions", actions)))

OnStartup(on_startup) == D(Put(EmptyDict, "on_startup", L(on_startup)))

SessionFile(name, enabled, actions) ==
    File(name, ContextSuffix, Dump(SessionDocument(name, enabled, actions)))

SessionDirectories ==
    { EmptyDict,
      File(NameA, ContextSuffix, Dump(SeedDocument(NameA, <<"d">>)))
          @@ SessionFile(NameB, B(TRUE), OnStartup(<<Recall>>)),
      SessionFile(NameA, B(TRUE), OnStartup(<<Recall, Unknown, Store>>)),
      SessionFile(NameA, B(TRUE), OnStartup(<<Recall, Unknown>>))
          @@ SessionFile(NameB, B(TRUE), OnStartup(<<Store, SearchNumbers>>))
          @@ SessionFile(NameSystem, B(FALSE), OnStartup(<<Recall>>)),
      SessionFile(NameA, B(FALSE), OnStartup(<<Recall>>))
          @@ SessionFile(NameB, B(TRUE), OnStartup(<<Search, Recall>>)),
      SessionFile(NameA, B(TRUE), OnStartup(<<RecallText, Search>>)),
      SessionFile(NameA, B(TRUE), OnStartup(<<Recall, Recall>>)),
      \* parameters of other types than the data model gives them
      SessionFile(NameA, B(TRUE), OnStartup(<<StoreNumber, SearchNumber, StoreLong>>)),
      SessionFile(NameA, B(TRUE), OnStartup(<<RecallNumber, StoreTagged>>)),
      \* documents that do not have the shape of the data model
      SessionFile(NameA, B(TRUE), L(<<>>)),
      SessionFile(NameA, B(TRUE), OnStartup(<<Recall, S(<<"x">>), Recall>>)) }

ServiceOutcomes == {"ok", "error", "raise"}

InitSession ==
    /\ files \in SessionDirectories
    /\ \E env \in EnvInputs, listing \in Orders(DOMAIN files) : Startup(env, listing)

\* handle_call_tool, execute_session_initialization
RunSession ==
    \E order \in Orders(DOMAIN contexts), t \in Readings(3),
       mios \in [1..MaxCalls -> ServiceOutcomes], lio \in ServiceOutcomes :
        LET out == execute_session_initialization(order, t, mios, lio)
        IN /\ t[Len(t)] <= MaxClock
           /\ now' = t[Len(t)]
           /\ session_status' = out.status
           /\ result' = [BaseResult("execute_session_initialization", <<>>) EXCEPT
                            !.raised = out.raised,
                            !.success = ~out.raised,
                            !.returned = IF out.raised THEN NoneV ELSE D(out.status)]
           /\ UNCHANGED <<files, backupDir, backups, contexts, stderr>>

\* handle_call_tool, get_session_status
StatusQuery ==
    \E t \in Readings(1) :
        /\ t[Len(t)] <= MaxClock
        /\ now' = t[Len(t)]
        /\ result' = [BaseResult("get_session_status", <<>>) EXCEPT
                         !.success = TRUE, !.returned = D(get_session_status)]
        /\ UNCHANGED <<files, backupDir, backups, contexts, stderr, session_status>>

NextSession == RunSession \/ StatusQuery

SpecSession == InitSession /\ [][NextSession]_vars

----------------------------------------------------------------------------
(* Properties of the store *)

Mutators == {"update", "add_pattern"}

\* C1: after a create, update or add_pattern that returned success=true, the
\* file the call wrote parses to the document now stored in memory under
\* that name.
C1_MemoryEqualsWrittenFile ==
    result.success =>
        /\ result.wrote.t = "str"
        /\ result.wrote.s \in DOMAIN files
        /\ files[result.wrote.s].kind = "json"
        /\ result.context_name \in DOMAIN contexts
        /\ load_context_file(files[result.wrote.s]) = contexts[result.context_name]

\* C2: an update or add_pattern that returned success=false because the
\* merged document failed validation or because the file write failed leaves
\* the in-memory document of that name, nested sections included, as it was.
C2_FailedCallLeavesMemory ==
    [][(result'.op \in Mutators /\ result'.error \in {"validation", "write_failed"})
        => /\ DOMAIN contexts' = DOMAIN contexts
           /\ contexts'[result'.context_name] = contexts[result'.context_name]]_vars

\* C3: an update of a loaded name that update accepts, with an updates value
\* whose merge fails validation, never succeeds and leaves every file of the
\* directory as it was, whatever the file system does; and when it returns
\* it returns the Validator's errors.
C3_NoWriteOnValidationFailure ==
    [][(/\ result'.op = "update"
        /\ result'.context_name \in DOMAIN contexts
        /\ _validate_context_name(result'.context_name))
       => \* the Validator's verdict does not depend on the time of the merge
          LET merge == MergeUpdates(contexts[result'.context_name], result'.argument.d, now)
              validation == _validate_context_data(merge.doc)
          IN \/ /\ files' = files
                /\ ~result'.success
                /\ ~result'.raised =>
                      /\ result'.error = "validation"
                      /\ result'.validation_errors = validation.errors
             \/ merge.raised
             \/ Len(validation.errors) = 0]_vars

C3_Witness ==
    /\ result.op = "update"
    /\ result.error = "validation"
    /\ Len(result.validation_errors) > 0
    /\ result.backup_file # NoneV

\* C4: the document file a successful create, update or add_pattern has
\* written holds a document with zero Validator errors.
C4_WrittenDocumentsValid ==
    result.success =>
        /\ files[result.wrote.s].kind = "json"
        /\ Len(_validate_context_data(files[result.wrote.s].doc).errors) = 0

\* C5: an update or add_pattern call, failed writes included, leaves every
\* document file either as it was or holding a complete document.
C5_AtomicPersist ==
    [][result'.op \in Mutators =>
        \A f \in DOMAIN files' :
            \/ f \in DOMAIN files /\ files'[f] = files[f]
            \/ files'[f].kind = "json"]_vars

\* C6: a successful update or add_pattern whose backup copy did not fail
\* adds exactly one file to backups/, holding what the document's file held
\* before the call.
C6_ExactlyOneNewBackup ==
    [][(result'.op \in Mutators /\ result'.success /\ WarnBackup \notin stderr')
        => \E b \in DOMAIN backups' \ DOMAIN backups :
              /\ DOMAIN backups' = DOMAIN backups \cup {b}
              /\ \E f \in DOMAIN files :
                    /\ ContextNameOf(f) = result'.context_name
                    /\ backups'[b] = files[f]]_vars

\* C7: a successful call, made to a store whose calls so far succeeded,
\* removes no backup file and changes the content of none.
C7_BackupsAppendOnly ==
    [][(result'.success /\ (result.success \/ result.op = "init"))
        => \A b \in DOMAIN backups :
              b \in DOMAIN backups' /\ backups'[b] = backups[b]]_vars

\* whether the file system outcome bio makes the backup of name fail
BackupFails(name, bio) ==
    /\ (name \o ContextSuffix) \in DOMAIN files
    /\ \/ bio \in {"copy_fail", "copy_partial", "stat_fail"}
       \/ bio = "mkdir_fail" /\ ~backupDir

\* C8: whenever an update or add_pattern would succeed with a working
\* backup, it also succeeds when the backup's mkdir or copy fails: same
\* files, same memory, success=true and no backup reference.
C8_BackupFailureNonFatal ==
    \A name \in DOMAIN contexts, t \in Readings(2), bio \in BackupOutcomes,
       wio \in WriteOutcomes, aio \in TaskOutcomes :
        /\ \A updates \in UpdatesInputs :
            LET good == update_context_rules(name, updates, t, "ok", wio, aio)
                post == update_context_rules(name, updates, t, bio, wio, aio)
            IN (good.result.success /\ BackupFails(name, bio))
               => /\ post.result.success
                  /\ post.result.backup_file = NoneV
                  /\ post.files = good.files
                  /\ post.contexts = good.contexts
        /\ \A section \in SectionInputs, pattern_name \in PatternNames, config \in PatternConfigs :
            LET good == add_context_pattern(name, section, pattern_name, config, t, "ok", wio, aio)
                post == add_context_pattern(name, section, pattern_name, config, t, bio, wio, aio)
            IN (good.result.success /\ BackupFails(name, bio))
               => /\ post.result.success
                  /\ post.result.backup_file = NoneV
                  /\ post.files = good.files
                  /\ post.contexts = good.contexts

\* the maps of the fresh stores that auto-load the directory
FreshStores ==
    {load_all_contexts(files, NoneV, listing) : listing \in Orders(DOMAIN files)}

\* C9: after a successful update or add_pattern, a fresh store built from the
\* same directory holds, under that name, the document the mutating store
\* holds in memory.
C9_ReloadAfterMutation ==
    (result.success /\ result.op \in Mutators) =>
        \A fresh \in FreshStores :
            /\ result.context_name \in DOMAIN fresh
            /\ fresh[result.context_name] = contexts[result.context_name]

\* C10: after a successful create, a fresh store built from the same
\* directory holds, under that name, the document create wrote.
C10_CreateRoundTrip ==
    (result.success /\ result.op = "create") =>
        \A fresh \in FreshStores :
            /\ result.context_name \in DOMAIN fresh
            /\ fresh[result.context_name] = load_context_file(files[result.wrote.s])
            /\ fresh[result.context_name]["tool_category"] \in {S(c) : c \in Categories}

\* the name carried by at least one file of the configuration directory
OnDisk(name) == \E f \in DOMAIN files : ContextNameOf(f) = name

\* C11: create returns success = false and leaves disk and memory unchanged
\* whenever a document of that name already exists on disk, whichever of the
\* accepted file names (<name>_context.json or <name>.json) holds it; shown
\* on the calls that the file system and the event loop serve
C11_CreateRejectsExisting ==
    [][(/\ result'.op = "create"
        /\ OnDisk(result'.context_name)
        /\ result'.error \notin {"write_failed", "task_failed"}) =>
          /\ ~result'.success
          /\ files' = files
          /\ contexts' = contexts]_vars

\* a name as the data model defines it: one to fifty characters of
\* A-Z a-z 0-9 _ -, and none of the reserved names
PatternName(name) ==
    /\ Len(name) \in 1..MaxNameLen
    /\ \A i \in DOMAIN name : name[i] \in NameChars
    /\ name \notin ReservedNames

\* C12: in every reachable state, every name in the in-memory map is a
\* pattern name that is not reserved
C12_NamesInMapValid == \A name \in DOMAIN contexts : PatternName(name)

\* metadata.optimization_count of a document, zero when it carries none
Count(doc) ==
    LET meta == Get(doc, "metadata", D(EmptyDict))
    IN IF /\ isinstance_dict(meta)
          /\ "optimization_count" \in DOMAIN meta.d
          /\ meta.d["optimization_count"].t = "int"
       THEN meta.d["optimization_count"].n
       ELSE 0

\* C13: across successful update, add_pattern and auto-optimize operations
\* on a document, optimization_count after the operation is at least the
\* value before it, and auto-optimize raises it by exactly one
C13_CountNeverDecreases ==
    [][(/\ result'.success
        /\ result'.op \in {"update", "add_pattern", "optimize"}
        /\ result'.context_name \in DOMAIN contexts) =>
          LET before == Count(contexts[result'.context_name])
              after == Count(contexts'[result'.context_name])
          IN /\ after >= before
             /\ result'.op = "optimize" => after = before + 1]_vars

\* C18: update and add_pattern called with a name that is not in the
\* in-memory map return success = false and leave the name list, every
\* document file and backups/ unchanged
C18_UnknownNameRejected ==
    [][(result'.op \in Mutators /\ result'.context_name \notin DOMAIN contexts) =>
          /\ ~result'.success
          /\ ~result'.raised
          /\ contexts' = contexts
          /\ files' = files
          /\ backupDir' = backupDir
          /\ backups' = backups]_vars

\* an unknown name was rejected although a file of that name is on disk
C18_Witness ==
    /\ result.op \in Mutators
    /\ result.error = "not_found"
    /\ (result.context_name \o ContextSuffix) \in DOMAIN files
    /\ result.context_name \notin DOMAIN contexts

\* C19: create called with a name or a category that fails the name pattern
\* or is reserved returns an invalid-name or invalid-category failure,
\* writes no file and adds no entry to the in-memory map
C19_InvalidNameRejected ==
    \A name \in CreateNames, category \in Categories, rules \in RulesInputs,
       t \in Readings(1), wio \in WriteOutcomes, aio \in TaskOutcomes :
        (~PatternName(name) \/ ~PatternName(category)) =>
            LET post == create_context_file(name, category, rules, t, wio, aio)
            IN /\ ~post.result.success
               /\ post.result.error \in {"invalid_name", "invalid_category"}
               /\ post.files = files
               /\ post.contexts = contexts

\* C20: the failure result of create on an existing name, of update on an
\* unknown name and of add_pattern on an unknown name each carries the
\* store's current name list
C20_ConflictsCarryNames ==
    result.error \in {"exists", "not_found"} =>
        /\ result.available_contexts.t = "list"
        /\ result.available_contexts.names = DOMAIN contexts

\* C20, as the code has it: update and add_pattern on an unknown name carry
\* the current name list; create on an existing name carries the path of the
\* existing file and no name list
C20_UnknownNameCarriesNames ==
    /\ (result.op \in Mutators /\ result.error = "not_found") =>
          /\ result.available_contexts.t = "list"
          /\ result.available_contexts.names = DOMAIN contexts
    /\ (result.op = "create" /\ result.error = "exists") =>
          /\ result.available_contexts = NoneV
          /\ result.existing_file = S(result.context_name \o ContextSuffix)

\* add_pattern on an unknown name while the store holds documents
C20_Witness ==
    /\ result.op = "add_pattern"
    /\ result.error = "not_found"
    /\ DOMAIN contexts # {}

\* the part of a tool identifier before its first ':', the whole identifier
\* when it has none
CategoryOf(tool_name) ==
    LET colons == {i \in DOMAIN tool_name : tool_name[i] = ":"}
    IN IF colons = {} THEN tool_name
       ELSE SubSeq(tool_name, 1, (CHOOSE i \in colons : \A j \in colons : i <= j) - 1)

\* C14: get_by_tool resolves only on the part of the tool identifier before
\* the first ':' and returns the document stored under that key or an empty
\* document, never failing; two identifiers with the same part before the
\* ':' get the identical document; the call changes no store state
C14_ResolvesByPrefix ==
    [][result'.op = "get_tool_context" =>
          /\ ~result'.raised
          /\ result'.returned =
                D(IF CategoryOf(result'.context_name) \in DOMAIN contexts
                  THEN contexts[CategoryOf(result'.context_name)]
                  ELSE EmptyDict)
          /\ \A other \in ToolNames :
                CategoryOf(other) = CategoryOf(result'.context_name) =>
                    D(get_tool_context(other)) = result'.returned
          /\ UNCHANGED <<files, backupDir, backups, contexts>>]_vars

\* "a:x:y" was resolved to the stored document a
C14_Witness ==
    /\ result.op = "get_tool_context"
    /\ result.context_name = <<"a", ":", "x", ":", "y">>
    /\ NameA \in DOMAIN contexts
    /\ result.returned = D(contexts[NameA])
    /\ DOMAIN contexts[NameA] # {}

\* C15: for every document whose tool_category is c, get_by_tool of
\* "c:<specific>" returns that document, also when create stored it under a
\* name different from c; shown on the document a successful create stored
C15_ResolvesByToolCategory ==
    (result.op = "create" /\ result.success) =>
        LET doc == contexts[result.context_name]
        IN \A specific \in {<<"x">>, <<"y">>} :
              get_tool_context(doc["tool_category"].s \o <<":">> \o specific) = doc

\* the rules of a stored auto_corrections section, in stored order
StoredRules(doc) ==
    LET section == Get(doc, "auto_corrections", OD(<<>>, EmptyDict))
    IN [i \in DOMAIN section.keys |-> section.d[section.keys[i]]]

\* a rule with a pattern and a replacement, both strings, whose pattern
\* compiles
WellFormed(rule) ==
    /\ isinstance_dict(rule)
    /\ {"pattern", "replacement"} \subseteq DOMAIN rule.d
    /\ isinstance_str(rule.d["pattern"])
    /\ isinstance_str(rule.d["replacement"])
    /\ re_compiles(rule.d["pattern"].s)

\* a rule that lacks its pattern or its replacement, or whose pattern does
\* not compile
Defective(rule) ==
    /\ isinstance_dict(rule)
    /\ \/ "pattern" \notin DOMAIN rule.d
       \/ "replacement" \notin DOMAIN rule.d
       \/ /\ isinstance_str(rule.d["pattern"])
          /\ ~re_compiles(rule.d["pattern"].s)

\* the text after the last rule has been applied to what the rules before
\* it made of the text
RECURSIVE Chained(_, _)
Chained(rules, text) ==
    IF rules = <<>> THEN text
    ELSE LET last == rules[Len(rules)]
         IN SubLiteral(last.d["pattern"].s, last.d["replacement"].s,
                       Chained(SubSeq(rules, 1, Len(rules) - 1), text))

\* C16: apply_corrections applies the rules of auto_corrections in stored
\* order, each to the output of the one before, and does not modify the
\* stored document
C16_RulesInStoredOrder ==
    [][(/\ result'.op = "apply_auto_corrections"
        /\ CategoryOf(result'.context_name) \in DOMAIN contexts
        /\ \A i \in DOMAIN StoredRules(contexts[CategoryOf(result'.context_name)]) :
              WellFormed(StoredRules(contexts[CategoryOf(result'.context_name)])[i])) =>
          /\ ~result'.raised
          /\ result'.returned =
                S(Chained(StoredRules(contexts[CategoryOf(result'.context_name)]), result'.argument.s))
          /\ contexts' = contexts
          /\ files' = files]_vars

\* [a-to-b, b-to-c] made "c" of "a"
C16_Witness ==
    /\ result.op = "apply_auto_corrections"
    /\ NameA \in DOMAIN contexts
    /\ StoredRules(contexts[NameA]) =
          <<Rule(S(<<"a">>), S(<<"b">>)), Rule(S(<<"b">>), S(<<"c">>))>>
    /\ result.argument = S(<<"a">>)
    /\ result.returned = S(<<"c">>)

\* C17: for a rule list in which some entries lack pattern or replacement or
\* carry a pattern that does not compile, apply_corrections returns, and
\* what it returns is the output of the remaining well-formed rules applied
\* in order
C17_DefectiveRulesSkipped ==
    [][(/\ result'.op = "apply_auto_corrections"
        /\ CategoryOf(result'.context_name) \in DOMAIN contexts
        /\ \A i \in DOMAIN StoredRules(contexts[CategoryOf(result'.context_name)]) :
              \/ WellFormed(StoredRules(contexts[CategoryOf(result'.context_name)])[i])
              \/ Defective(StoredRules(contexts[CategoryOf(result'.context_name)])[i])
        /\ \E i \in DOMAIN StoredRules(contexts[CategoryOf(result'.context_name)]) :
              Defective(StoredRules(contexts[CategoryOf(result'.context_name)])[i])) =>
          LET rules == StoredRules(contexts[CategoryOf(result'.context_name)])
              kept == Filter(rules, [i \in DOMAIN rules |-> WellFormed(rules[i])])
          IN /\ ~result'.raised
             /\ result'.returned = S(Chained(kept, result'.argument.s))]_vars

\* [a-to-b, a pattern that does not compile, b-to-c] made "ccc" of "aba"
C17_Witness ==
    /\ result.op = "apply_auto_corrections"
    /\ NameA \in DOMAIN contexts
    /\ StoredRules(contexts[NameA]) =
          <<Rule(S(<<"a">>), S(<<"b">>)), Rule(S(<<"(">>), S(<<"z">>)),
            Rule(S(<<"b">>), S(<<"c">>))>>
    /\ result.argument = S(<<"a", "b", "a">>)
    /\ result.returned = S(<<"c", "c", "c">>)

\* C21: a document file that cannot be read or parsed is skipped by
\* load_all: with auto-loading on, the name list has no entry for it, and
\* has an entry with the parsed content for every well-formed file of the
\* directory
C21_UnreadableFileSkipped ==
    (result.op = "init" /\ auto_load(result.argument)) =>
        LET readable == {f \in DOMAIN files : files[f].kind = "json"}
        IN /\ \A f \in DOMAIN files \ readable :
                 \/ ContextNameOf(f) \notin DOMAIN contexts
                 \/ \E g \in readable : ContextNameOf(g) = ContextNameOf(f)
           /\ \A f \in readable :
                 /\ ContextNameOf(f) \in DOMAIN contexts
                 /\ \E g \in readable :
                       /\ ContextNameOf(g) = ContextNameOf(f)
                       /\ contexts[ContextNameOf(f)] = files[g].doc

\* C22: when the directory holds <name>_context.json and <name>.json, the
\* document registered under name after load_all (with auto-loading on) is
\* the content of <name>_context.json
C22_ContextSuffixPreferred ==
    (result.op = "init" /\ auto_load(result.argument)) =>
        \A name \in DOMAIN contexts :
            (/\ (name \o ContextSuffix) \in DOMAIN files
             /\ (name \o JsonSuffix) \in DOMAIN files
             /\ files[name \o ContextSuffix].kind = "json") =>
                contexts[name] = files[name \o ContextSuffix].doc

\* C27: for every create, update and add_pattern call, the returned result
\* and the resulting disk and in-memory state are the same whether the audit
\* event is dispatched or cannot be dispatched at all
C27_AuditOutcomeIrrelevant ==
    \A t \in Readings(2), bio \in BackupOutcomes, wio \in WriteOutcomes :
        /\ \A name \in CreateNames, category \in Categories, rules \in RulesInputs :
              create_context_file(name, category, rules, t, wio, "dispatched")
                  = create_context_file(name, category, rules, t, wio, "no_loop")
        /\ \A name \in UpdateNames, updates \in UpdatesInputs :
              update_context_rules(name, updates, t, bio, wio, "dispatched")
                  = update_context_rules(name, updates, t, bio, wio, "no_loop")
        /\ \A name \in UpdateNames, section \in SectionInputs,
              pattern_name \in PatternNames, config \in PatternConfigs :
              add_context_pattern(name, section, pattern_name, config, t, bio, wio, "dispatched")
                  = add_context_pattern(name, section, pattern_name, config, t, bio, wio, "no_loop")

\* updates whose description is a string and whose metadata is an object
ValidUpdates ==
    {updates \in UpdatesInputs :
        /\ "description" \in DOMAIN updates => isinstance_str(updates["description"])
        /\ "metadata" \in DOMAIN updates => isinstance_dict(updates["metadata"])}

\* C29: after a successful create the name is in the store's name list, and
\* a following update with valid updates and a following add_pattern to a
\* valid section each return success = true, the file system and the event
\* loop serving the call
C29_CreatedDocumentKnown ==
    (result.op = "create" /\ result.success) =>
        /\ result.context_name \in DOMAIN contexts
        /\ \A t \in Readings(2), updates \in ValidUpdates :
              update_context_rules(result.context_name, updates, t,
                                   "ok", "ok", "dispatched").result.success
        /\ \A t \in Readings(2), section \in ValidSections,
              pattern_name \in PatternNames, config \in PatternConfigs :
              add_context_pattern(result.context_name, section, pattern_name, config, t,
                                  "ok", "ok", "dispatched").result.success

\* an update or add_pattern succeeded on a document that create had stored
C29_Witness ==
    /\ result.op \in Mutators
    /\ result.success
    /\ "metadata" \in DOMAIN contexts[result.context_name]
    /\ "created_by" \in DOMAIN contexts[result.context_name]["metadata"].d

\* the optional structured sections of a document
StructuredSections ==
    {"syntax_rules", "preferences", "auto_corrections", "session_initialization",
     "auto_store_triggers", "auto_retrieve_triggers", "metadata"}

\* C30: the Validator reports an error for every optional structured
\* section present with a non-object value, so an update that sets one of
\* them to a non-object value is rejected and not written
C30_NonObjectSectionRejected ==
    \A name \in DOMAIN contexts, section \in StructuredSections, t \in Readings(2),
       bio \in BackupOutcomes, wio \in WriteOutcomes, aio \in TaskOutcomes :
        (/\ _validate_context_name(name)
         /\ Len(_validate_context_data(contexts[name]).errors) = 0) =>
            LET updates == [k \in {section} |-> S(<<"x">>)]
                post == update_context_rules(name, updates, t, bio, wio, aio)
            IN /\ Len(_validate_context_data(Put(contexts[name], section, S(<<"x">>))).errors) > 0
               /\ ~post.result.success
               /\ post.files = files


----------------------------------------------------------------------------
(* Properties of session initialization *)

SessionRun == "execute_session_initialization"

\* C23: every session-initialization run returns a Session Status record
\* with initialized = true that contains memory_retrieval_results; the call
\* returns the record rather than failing, whatever documents are loaded.
C23_RunReturnsStatus ==
    result.op = SessionRun =>
        /\ ~result.raised
        /\ result.returned = D(session_status)
        /\ session_status.initialized

\* C24: a failure of the memory-service call of a startup action (the
\* service raises or reports an error) is recorded in errors, and the action
\* is not recorded in executed_actions with status success.
C24_ServiceFailureRecorded ==
    \A i \in DOMAIN session_status.executed_actions :
        LET entry == session_status.executed_actions[i]
        IN (isinstance_dict(entry.parameters)
            /\ entry.result_summary \in {"failed", "exception"})
           => /\ entry.status # "success"
              /\ session_status.errors # <<>>

\* the documents of the store have the shape of the data model: a
\* session_initialization section is {enabled: bool, actions: {on_startup:
\* list of {action, parameters}}}
Typed(context_data) ==
    "session_initialization" \in DOMAIN context_data =>
        LET session_init == context_data["session_initialization"]
        IN /\ isinstance_dict(session_init)
           /\ DOMAIN session_init.d = {"enabled", "actions"}
           /\ session_init.d["enabled"].t = "bool"
           /\ isinstance_dict(session_init.d["actions"])
           /\ DOMAIN session_init.d["actions"].d = {"on_startup"}
           /\ session_init.d["actions"].d["on_startup"].t = "list"
           /\ \A i \in DOMAIN session_init.d["actions"].d["on_startup"].l :
                LET action_config == session_init.d["actions"].d["on_startup"].l[i]
                IN isinstance_dict(action_config) /\ "action" \in DOMAIN action_config.d

Enabled(name) ==
    /\ "session_initialization" \in DOMAIN contexts[name]
    /\ contexts[name]["session_initialization"].d["enabled"] = B(TRUE)

\* the on_startup list a document declares
Declared(name) == contexts[name]["session_initialization"].d["actions"].d["on_startup"].l

RECURSIVE Dispatch(_)
\* the (document, action) pairs of the documents named, document after
\* document, each document's actions in their declared order
Dispatch(names) ==
    IF names = <<>> THEN <<>>
    ELSE [i \in DOMAIN Declared(Head(names).s) |->
             <<Head(names).s, Declared(Head(names).s)[i].d["action"]>>]
         \o Dispatch(Tail(names))

\* the (document, action) pairs of the actions a run has dispatched
Dispatched(status) ==
    [i \in DOMAIN status.executed_actions |->
        <<status.executed_actions[i].context, status.executed_actions[i].action>>]

\* C25: a run dispatches the on_startup actions of every loaded document
\* whose session_initialization.enabled is true and of no other document,
\* each document's actions in their declared order; a failing or unknown
\* action stops nothing, every later action of the document and of the
\* later documents is dispatched too.
C25_EnabledActionsDispatchedInOrder ==
    [][(result'.op = SessionRun /\ \A name \in DOMAIN contexts : Typed(contexts[name]))
        => /\ session_status'.initialized_contexts.t = "list"
           /\ {session_status'.initialized_contexts.l[i] :
                  i \in DOMAIN session_status'.initialized_contexts.l}
              = {S(name) : name \in {n \in DOMAIN contexts : Enabled(n)}}
           /\ Len(session_status'.initialized_contexts.l)
              = Cardinality({n \in DOMAIN contexts : Enabled(n)})
           /\ Dispatched(session_status') = Dispatch(session_status'.initialized_contexts.l)]_vars

\* a run over two enabled documents and a disabled one: an action the
\* service failed and an unknown action are followed by the actions of the
\* other enabled document, the last of which raised while its result was
\* made
C25_Witness ==
    /\ result.op = SessionRun
    /\ \E name \in DOMAIN contexts : ~Enabled(name)
    /\ \A name \in DOMAIN contexts : Typed(contexts[name])
    /\ Len(session_status.executed_actions) = 4
    /\ session_status.executed_actions[1].result_summary = "failed"
    /\ session_status.executed_actions[2].result_summary = "unknown"
    /\ session_status.executed_actions[3].context # session_status.executed_actions[1].context
    /\ session_status.executed_actions[4].result_summary = "exception"

\* the number of startup actions a document declares
Startups(name) ==
    LET session_init == Get(contexts[name], "session_initialization", D(EmptyDict))
        actions == IF isinstance_dict(session_init)
                   THEN Get(session_init.d, "actions", D(EmptyDict)) ELSE NoneV
        on_startup == IF isinstance_dict(actions)
                      THEN Get(actions.d, "on_startup", L(<<>>)) ELSE NoneV
    IN IF on_startup.t = "list" THEN Len(on_startup.l) ELSE 0

RECURSIVE Total(_)
Total(names) ==
    IF names = {} THEN 0
    ELSE LET name == CHOOSE n \in names : TRUE
         IN Startups(name) + Total(names \ {name})

\* C26: the Session Status is overwritten, not merged, on each run: after
\* any sequence of runs the status holds the executed_actions, errors and
\* memory_retrieval_results of the most recent run only, and a status query
\* returns it and does not change it.
C26_StatusOfLastRunOnly ==
    [][/\ result'.op = SessionRun =>
            /\ session_status'.initialization_time \in {isoformat(t) : t \in (now + 1)..now'}
            /\ Len(session_status'.executed_actions) <= Total(DOMAIN contexts)
            /\ Len(session_status'.errors) <= Total(DOMAIN contexts)
            /\ \A key \in DOMAIN session_status'.memory_retrieval_results :
                 \E i \in DOMAIN session_status'.executed_actions :
                    LET entry == session_status'.executed_actions[i]
                    IN /\ key = entry.context \o <<"_">> \o entry.action.s
                       /\ session_status'.memory_retrieval_results[key] = entry.result_summary
            /\ (session_status'.initialized /\ \A name \in DOMAIN contexts : Typed(contexts[name]))
               => Len(session_status'.executed_actions)
                  = Total({n \in DOMAIN contexts : Enabled(n)})
       /\ result'.op = "get_session_status" =>
            /\ session_status' = session_status
            /\ result'.returned = D(session_status)]_vars

\* a status query after a run that dispatched actions and retrieved memories
C26_Witness ==
    /\ result.op = "get_session_status"
    /\ result.returned = D(session_status)
    /\ session_status.initialized
    /\ Len(session_status.executed_actions) >= 2
    /\ DOMAIN session_status.memory_retrieval_results # {}

\* C28: no public operation of the store raises: create, update,
\* add_pattern, get_by_tool, apply_corrections and the session-initialization
\* run return a result or status object for every input and every failure of
\* a file-system or memory-service step.
C28_NoOperationRaises == ~result.raised


----------------------------------------------------------------------------
(* Properties of the store, continued *)

\* C31: warnings never block a write: a create or update whose resulting
\* document has no Validator error and at least one warning (description
\* over 500 characters, metadata.version not x.y.z) is not refused, and when
\* it succeeds the document is on disk and the warnings are in the result.
C31_WarningsNeverBlock ==
    [][result'.op \in {"create", "update"} =>
          /\ result'.error = "validation" => Len(result'.validation_errors) > 0
          /\ result'.success =>
                /\ files'[result'.context_name \o ContextSuffix]
                       = Dump(contexts'[result'.context_name])
                /\ result'.warnings
                       = _validate_context_data(contexts'[result'.context_name]).warnings]_vars

\* an update that succeeded with both warnings
C31_Witness ==
    /\ result.op = "update"
    /\ result.success
    /\ result.warnings = <<WarnDescription, WarnVersion>>
    /\ files[result.context_name \o ContextSuffix] = Dump(contexts[result.context_name])

\* C32: add_pattern with a section other than auto_store_triggers and
\* auto_retrieve_triggers returns a structured failure and applies nothing:
\* no backup is made, and the document's file and in-memory copy stay as
\* they are.
C32_OtherSectionRefusedWhole ==
    \A name \in UpdateNames,
       section \in SectionInputs \ {"auto_store_triggers", "auto_retrieve_triggers"},
       pattern_name \in PatternNames, config \in PatternConfigs, t \in Readings(2),
       bio \in BackupOutcomes :
        \* the write and the audit dispatch would work
        LET post == add_context_pattern(name, section, pattern_name, config, t,
                                        bio, "ok", "dispatched")
        IN /\ ~post.result.success
           /\ ~post.result.raised
           /\ post.result.error \in {"invalid_name", "not_found", "invalid_section"}
           /\ post.backups = backups
           /\ post.backupDir = backupDir
           /\ post.files = files
           /\ post.contexts = contexts

\* add_pattern was refused for its section on a document that has a file,
\* and there is no backup
C32_Witness ==
    /\ result.op = "add_pattern"
    /\ result.error = "invalid_section"
    /\ result.context_name \o ContextSuffix \in DOMAIN files
    /\ ~backupDir
    /\ backups = EmptyDict

\* C33: after a successful update(name, updates) every top-level field not
\* named in updates keeps its value, every field named in updates other than
\* metadata has the supplied value, every metadata key not named in
\* updates.metadata keeps its value, and metadata.last_updated is refreshed
\* whether or not updates names metadata.
C33_UpdateFrame ==
    [][(result'.op = "update" /\ result'.success) =>
        LET name == result'.context_name
            updates == result'.argument.d
            old == contexts[name]
            new == contexts'[name]
            oldMeta == Get(old, "metadata", D(EmptyDict)).d
            newMeta == new["metadata"].d
            named == IF "metadata" \in DOMAIN updates
                     THEN DOMAIN UpdateArgument(EmptyDict, updates["metadata"]).d
                     ELSE {}
        IN /\ DOMAIN new = DOMAIN old \cup DOMAIN updates \cup {"metadata"}
           /\ \A k \in DOMAIN old \ (DOMAIN updates \cup {"metadata"}) : new[k] = old[k]
           /\ \A k \in DOMAIN updates \ {"metadata"} : new[k] = updates[k]
           /\ DOMAIN newMeta = DOMAIN oldMeta \cup named \cup {"last_updated"}
           /\ \A m \in DOMAIN oldMeta \ (named \cup {"last_updated"}) :
                 newMeta[m] = oldMeta[m]
           \* one of the clock readings of the call
           /\ newMeta["last_updated"] \in {isoformat(t) : t \in (now + 1)..now'}]_vars

\* an update that named one metadata key succeeded: the key has the
\* supplied value, the version the document had is kept, last_updated is
\* the time of the call and the description is the one the document had
C33_Witness ==
    /\ result.op = "update"
    /\ result.success
    /\ DOMAIN contexts[result.context_name]["metadata"].d
           = {"priority", "version", "last_updated"}
    /\ contexts[result.context_name]["metadata"].d["priority"] = S(<<"h">>)
    /\ contexts[result.context_name]["metadata"].d["version"] = S(InitialVersion)
    /\ contexts[result.context_name]["metadata"].d["last_updated"] = isoformat(now)
    /\ Get(contexts[result.context_name], "description", NoneV) = S(<<"d">>)

\* C34: in every successful update and add_pattern the backup copy of the
\* existing file is taken before the file is overwritten, the write
\* completes before the in-memory map entry is replaced, and the audit
\* event is emitted after both; no audit event is emitted before the write.
\* The order shows in what a call leaves behind when a later step fails.
C34_BackupWriteSwapAudit ==
    [][result'.op \in Mutators =>
          LET name == result'.context_name
              context_file == name \o ContextSuffix
              wroteOrTried == result'.success
                              \/ result'.error \in {"write_failed", "task_failed"}
          IN /\ (wroteOrTried /\ result'.backup_file # NoneV) =>
                    \* the backup holds the file the write was about to replace
                    /\ result'.backup_file.s \in DOMAIN backups'
                    /\ backups'[result'.backup_file.s] = files[context_file]
             /\ result'.error = "write_failed" =>
                    \* the map entry was not replaced and no audit task was made
                    /\ DOMAIN contexts'[name] = DOMAIN contexts[name]
                    /\ \A k \in DOMAIN contexts[name] \ ({"metadata"} \cup ValidSections) :
                          contexts'[name][k] = contexts[name][k]
                    /\ result'.task = NoneV
             /\ result'.error = "task_failed" =>
                    \* the file was written and the entry replaced before the dispatch
                    /\ files'[context_file] = Dump(contexts'[name])
                    /\ contexts'[name] # contexts[name]
                    /\ result'.task = NoneV
             /\ result'.success =>
                    /\ files'[context_file] = Dump(contexts'[name])
                    /\ result'.task # NoneV
             /\ ~wroteOrTried => (files' = files /\ result'.task = NoneV)]_vars

\* an update or add_pattern succeeded: the backup of this call holds another
\* content than the file now has, the file holds the stored document and
\* the audit task was made
C34_Witness ==
    /\ result.op \in Mutators
    /\ result.success
    /\ result.backup_file # NoneV
    /\ result.backup_file.s \in DOMAIN backups
    /\ backups[result.backup_file.s] # files[result.context_name \o ContextSuffix]
    /\ files[result.context_name \o ContextSuffix] = Dump(contexts[result.context_name])
    /\ result.task # NoneV

\* the operation an audit event names
ChangeType(op) ==
    IF op = "create" THEN "created"
    ELSE IF op = "update" THEN "updated"
    ELSE "pattern_added"

\* C35: each successful create, update and add_pattern emits exactly one
\* audit event, tagged context_change, the operation (created, updated,
\* pattern_added), the context name and automated; a mutating call that
\* returns success = false emits none.
C35_OneAuditEventPerSuccess ==
    [][result'.op \in {"create", "update", "add_pattern"} =>
          /\ result'.success =>
                result'.task = [t |-> "task",
                                tags |-> <<"context_change", ChangeType(result'.op),
                                           result'.context_name, "automated">>]
          /\ ~result'.success => result'.task = NoneV]_vars

\* add_pattern succeeded and handed over its audit task
C35_Witness ==
    /\ result.op = "add_pattern"
    /\ result.success
    /\ result.task # NoneV
    /\ result.task.tags = <<"context_change", "pattern_added", result.context_name, "automated">>

\* C37: mutations are local to their document: a create, update or
\* add_pattern on a name, successful or not, leaves the document file and
\* the in-memory document of every other name unchanged.
C37_OtherDocumentsUntouched ==
    [][result'.op \in {"create", "update", "add_pattern"} =>
          /\ \A f \in (DOMAIN files \cup DOMAIN files') \ {result'.context_name \o ContextSuffix} :
                f \in DOMAIN files /\ f \in DOMAIN files' /\ files'[f] = files[f]
          /\ \A name \in (DOMAIN contexts \cup DOMAIN contexts') \ {result'.context_name} :
                /\ name \in DOMAIN contexts /\ name \in DOMAIN contexts'
                /\ contexts'[name] = contexts[name]]_vars

\* a mutation of one document succeeded next to another document, which is
\* on disk and in memory as it was loaded
C37_Witness ==
    /\ result.op \in Mutators
    /\ result.success
    /\ \E name \in DOMAIN contexts \ {result.context_name} :
          /\ contexts[name] = SeedDocument(name, <<"d">>)
          /\ name \o ContextSuffix \in DOMAIN files
          /\ files[name \o ContextSuffix] = Dump(contexts[name])

\* C38: backup files are never loaded as documents: after any sequence of
\* updates and add_patterns, load_all on a fresh store yields only names of
\* document files of the configuration directory itself and no name
\* derived from a file under backups/.
C38_BackupsNeverLoaded ==
    \A env \in EnvInputs, listing \in Orders(DOMAIN files) :
        LET fresh == load_all_contexts(files, env, listing)
            document_files == {f \in DOMAIN files : EndsWith(f, JsonSuffix)}
        IN /\ DOMAIN fresh \subseteq {ContextNameOf(f) : f \in document_files}
           /\ auto_load(env) => DOMAIN fresh = {ContextNameOf(f) : f \in document_files}
           /\ \A b \in DOMAIN backups : ContextNameOf(b) \notin DOMAIN fresh

\* an update or add_pattern succeeded and left a backup; a fresh store
\* loads the names the running store has
C38_Witness ==
    /\ result.op \in Mutators
    /\ result.success
    /\ result.backup_file # NoneV
    /\ result.backup_file.s \in DOMAIN backups
    /\ \A fresh \in FreshStores : DOMAIN fresh = DOMAIN contexts

----------------------------------------------------------------------------
(* Properties of session initialization, continued *)

\* the executed actions that retrieve memories
Retrievals(status) ==
    {i \in DOMAIN status.executed_actions :
        /\ status.executed_actions[i].action.t = "str"
        /\ status.executed_actions[i].action.s \in {RecallMemory, SearchByTag}}

\* C36: after a session-initialization run memory_retrieval_results holds,
\* under the key <context>_<action>, the result of each executed
\* recall_memory and search_by_tag action, one retrievable result per
\* executed retrieval action, and no entry for store_memory or unknown
\* actions.
C36_OneResultPerRetrieval ==
    (result.op = SessionRun
     /\ \A i \in DOMAIN session_status.executed_actions :
           isinstance_dict(session_status.executed_actions[i].parameters))
    => LET ran == session_status.executed_actions
           held == session_status.memory_retrieval_results
           key(i) == ran[i].context \o <<"_">> \o ran[i].action.s
       IN /\ \A k \in DOMAIN held : \E i \in Retrievals(session_status) : k = key(i)
          /\ \A i \in Retrievals(session_status) : key(i) \in DOMAIN held
          /\ Cardinality(DOMAIN held) = Cardinality(Retrievals(session_status))

====
